---------------------------- MODULE Spec2Model ----------------------------
(* The lavaplayer track-blob decoder of lavalink.rs (src/src/decoder.rs)   *)
(* as a state machine: one step per cursor operation of _decode_track.     *)
(* Bytes are naturals 0..255, a String is the sequence of its UTF-8 bytes, *)
(* a u64 is its four big-endian 16-bit words (TLC's integers are 32 bits   *)
(* wide), and a text is the sequence of its ASCII codes.                   *)
EXTENDS Integers, Sequences, FiniteSets, TLC

(***************************************************************************)
(* Bounds of the model.                                                    *)
(***************************************************************************)

\* The size of a generated track image: its string payload and padding bytes
\* plus the number of its scalar fields that differ from zero.
MaxSize == 2

(***************************************************************************)
(* Arithmetic on bytes.                                                    *)
(***************************************************************************)

Min(a, b) == IF a < b THEN a ELSE b

RECURSIVE BitAnd(_, _)
\* The bitwise and of two naturals.
BitAnd(a, b) ==
    IF a = 0 \/ b = 0 THEN 0
    ELSE (a % 2) * (b % 2) + 2 * BitAnd(a \div 2, b \div 2)

\* i64::from(value) of a u8: the zero-extended value, as <<bits 16.., bits 0..15>>.
I64From(value) == <<value \div 65536, value % 65536>>

\* The literal 0xC000_0000 as <<bits 16.., bits 0..15>>.
FlagsMask == <<49152, 0>>

TRACK_INFO_VERSIONED == 1

\* ((i64::from(value) & 0xC000_0000) >> 30) as i32
FlagsOf(value) ==
    LET wide == I64From(value)
        anded == <<BitAnd(wide[1], FlagsMask[1]), BitAnd(wide[2], FlagsMask[2])>>
    IN  anded[1] \div 16384

(***************************************************************************)
(* std::io::Cursor<Vec<u8>>: a buffer and a position.                      *)
(***************************************************************************)

\* Read::read_exact on the cursor: the n bytes at the position, or
\* UnexpectedEof when fewer remain. The bytes that remain are those from
\* min(position, length) on, so a position past the end leaves none.
read_exact(buf, pos, n) ==
    LET avail == Len(buf) - Min(pos, Len(buf))
    IN  IF n <= avail
        THEN [ok |-> TRUE, val |-> SubSeq(buf, pos + 1, pos + n), pos |-> pos + n]
        ELSE [ok |-> FALSE, val |-> <<>>, pos |-> pos]

\* ReadBytesExt::read_u8
read_u8(buf, pos) ==
    LET r == read_exact(buf, pos, 1)
    IN  [ok |-> r.ok, val |-> IF r.ok THEN r.val[1] ELSE 0, pos |-> r.pos]

\* Mutant of read_u16: the two bytes taken little-endian.
read_u16_le(buf, pos) ==
    LET r == read_exact(buf, pos, 2)
    IN  [ok |-> r.ok, val |-> IF r.ok THEN r.val[1] + 256 * r.val[2] ELSE 0,
         pos |-> r.pos]

\* ReadBytesExt::read_u16::<BE>
read_u16(buf, pos) ==
    LET r == read_exact(buf, pos, 2)
    IN  [ok |-> r.ok, val |-> IF r.ok THEN 256 * r.val[1] + r.val[2] ELSE 0,
         pos |-> r.pos]

\* Mutant of read_u64: the eight bytes taken little-endian.
read_u64_le(buf, pos) ==
    LET r == read_exact(buf, pos, 8)
    IN  [ok |-> r.ok,
         val |-> IF r.ok
                 THEN [w \in 1..4 |-> 256 * r.val[10 - 2 * w] + r.val[9 - 2 * w]]
                 ELSE <<0, 0, 0, 0>>,
         pos |-> r.pos]

\* ReadBytesExt::read_u64::<BE>: the value as four big-endian 16-bit words.
read_u64(buf, pos) ==
    LET r == read_exact(buf, pos, 8)
    IN  [ok |-> r.ok,
         val |-> IF r.ok
                 THEN [w \in 1..4 |-> 256 * r.val[2 * w - 1] + r.val[2 * w]]
                 ELSE <<0, 0, 0, 0>>,
         pos |-> r.pos]

\* The macro move_cursor!: set_position(position + s), with no check against
\* the length of the buffer.
move_cursor(pos, s) == pos + s

(***************************************************************************)
(* String::from_utf8: the validity of a byte sequence as UTF-8.            *)
(***************************************************************************)

IsCont(b) == b >= 128 /\ b <= 191

\* The length of the sequence a lead byte starts: 1 for ASCII, 2 to 4 for a
\* lead byte, 0 for a byte that starts no sequence.
Utf8Width(b) ==
    IF b < 128 THEN 1
    ELSE IF b >= 194 /\ b <= 223 THEN 2
    ELSE IF b >= 224 /\ b <= 239 THEN 3
    ELSE IF b >= 240 /\ b <= 244 THEN 4
    ELSE 0

\* Every byte that is not a continuation byte starts a whole sequence (with
\* the ranges the second byte has after 0xE0, 0xED, 0xF0 and 0xF4), and every
\* continuation byte belongs to the sequence of a lead byte before it.
Utf8Valid(s) ==
    \A i \in 1..Len(s) :
      IF IsCont(s[i])
      THEN \E k \in 1..3 :
             /\ i - k >= 1
             /\ Utf8Width(s[i - k]) > k
             /\ \A j \in 1..(k - 1) : IsCont(s[i - j])
      ELSE LET b == s[i]
               w == Utf8Width(b)
           IN  /\ w >= 1
               /\ i + w - 1 <= Len(s)
               /\ \A j \in 1..(w - 1) : IsCont(s[i + j])
               /\ (b = 224 => s[i + 1] >= 160)
               /\ (b = 237 => s[i + 1] <= 159)
               /\ (b = 240 => s[i + 1] >= 144)
               /\ (b = 244 => s[i + 1] <= 143)

(***************************************************************************)
(* The errors of src/src/error.rs that a decode returns.                   *)
(***************************************************************************)

\* Error::Io(e) with e.kind() = UnexpectedEof, from From<IoError>.
ErrIo == [kind |-> "Io", io |-> "UnexpectedEof"]

\* Error::ParseUtf8(e), from From<FromUtf8Error>; e holds the rejected bytes.
ErrParseUtf8(bytes) == [kind |-> "ParseUtf8", bytes |-> bytes]

\* Error::Base64Error(e), from From<DecodeError>.
ErrBase64 == [kind |-> "Base64Error"]

\* No error: the Ok side of a Result.
NoError == [kind |-> "None"]

\* Mutant of read_string: the payload read with read, which returns the
\* bytes that remain when they are fewer than size.
read_string_short(buf, pos) ==
    LET size == read_u16(buf, pos)
    IN  IF ~size.ok
        THEN [ok |-> FALSE, err |-> ErrIo, val |-> <<>>, pos |-> size.pos]
        ELSE
          LET got == Min(size.val, Len(buf) - Min(size.pos, Len(buf)))
              bytes == read_exact(buf, size.pos, got)
          IN  IF ~Utf8Valid(bytes.val)
              THEN [ok |-> FALSE, err |-> ErrParseUtf8(bytes.val), val |-> <<>>,
                    pos |-> bytes.pos]
              ELSE [ok |-> TRUE, err |-> NoError, val |-> bytes.val, pos |-> bytes.pos]

\* Mutant of read_string: the payload taken as it is, without String::from_utf8.
read_string_unchecked(buf, pos) ==
    LET size == read_u16(buf, pos)
    IN  IF ~size.ok
        THEN [ok |-> FALSE, err |-> ErrIo, val |-> <<>>, pos |-> size.pos]
        ELSE
          LET bytes == read_exact(buf, size.pos, size.val)
          IN  IF ~bytes.ok
              THEN [ok |-> FALSE, err |-> ErrIo, val |-> <<>>, pos |-> bytes.pos]
              ELSE [ok |-> TRUE, err |-> NoError, val |-> bytes.val, pos |-> bytes.pos]

\* Mutant of read_string: the length prefix read as one byte (read_u8).
read_string_u8(buf, pos) ==
    LET size == read_u8(buf, pos)
    IN  IF ~size.ok
        THEN [ok |-> FALSE, err |-> ErrIo, val |-> <<>>, pos |-> size.pos]
        ELSE
          LET bytes == read_exact(buf, size.pos, size.val)
          IN  IF ~bytes.ok
              THEN [ok |-> FALSE, err |-> ErrIo, val |-> <<>>, pos |-> bytes.pos]
              ELSE IF ~Utf8Valid(bytes.val)
              THEN [ok |-> FALSE, err |-> ErrParseUtf8(bytes.val), val |-> <<>>,
                    pos |-> bytes.pos]
              ELSE [ok |-> TRUE, err |-> NoError, val |-> bytes.val, pos |-> bytes.pos]

(***************************************************************************)
(* read_string                                                             *)
(***************************************************************************)

read_string(buf, pos) ==
    LET size == read_u16(buf, pos)
    IN  IF ~size.ok
        THEN [ok |-> FALSE, err |-> ErrIo, val |-> <<>>, pos |-> size.pos]
        ELSE
          LET bytes == read_exact(buf, size.pos, size.val)
          IN  IF ~bytes.ok
              THEN [ok |-> FALSE, err |-> ErrIo, val |-> <<>>, pos |-> bytes.pos]
              ELSE IF ~Utf8Valid(bytes.val)
              THEN [ok |-> FALSE, err |-> ErrParseUtf8(bytes.val), val |-> <<>>,
                    pos |-> bytes.pos]
              ELSE [ok |-> TRUE, err |-> NoError, val |-> bytes.val, pos |-> bytes.pos]


(***************************************************************************)
(* base64::decode with the standard alphabet. A text is decoded by what    *)
(* the alphabet says: four symbols of six bits make three bytes. The texts *)
(* the model decodes are canonical encodings and texts damaged by a symbol *)
(* outside the alphabet, a misplaced '=' or one symbol too many, on which  *)
(* every release of the crate agrees.                                      *)
(***************************************************************************)

\* The six-bit value of a symbol of the alphabet (A-Z a-z 0-9 + /), 64 for
\* any other character.
B64Value(c) ==
    IF c >= 65 /\ c <= 90 THEN c - 65
    ELSE IF c >= 97 /\ c <= 122 THEN c - 71
    ELSE IF c >= 48 /\ c <= 57 THEN c + 4
    ELSE IF c = 43 THEN 62
    ELSE IF c = 47 THEN 63
    ELSE 64

\* The text without its trailing '=' padding (at most two).
StripPad(text) ==
    LET n == Len(text)
        k == IF n >= 2 /\ text[n] = 61 /\ text[n - 1] = 61 THEN 2
             ELSE IF n >= 1 /\ text[n] = 61 THEN 1
             ELSE 0
    IN  SubSeq(text, 1, n - k)

\* Mutant of SextetsToBytes: only whole groups of four values are taken, a
\* last group of two or three values is dropped.
SextetsToBytes_Whole(v) ==
    LET n == (Len(v) \div 4) * 3
        byte(k) ==
            LET g == 4 * ((k - 1) \div 3)
            IN  CASE (k - 1) % 3 = 0 -> v[g + 1] * 4 + v[g + 2] \div 16
                  [] (k - 1) % 3 = 1 -> (v[g + 2] % 16) * 16 + v[g + 3] \div 4
                  [] OTHER -> (v[g + 3] % 4) * 64 + v[g + 4]
    IN  [k \in 1..n |-> byte(k)]

\* The bytes of a sequence of six-bit values: each group of four values makes
\* three bytes; a last group of two or three values makes one or two.
SextetsToBytes(v) ==
    LET n == (Len(v) \div 4) * 3
             + (IF Len(v) % 4 = 0 THEN 0 ELSE (Len(v) % 4) - 1)
        byte(k) ==
            LET g == 4 * ((k - 1) \div 3)
            IN  CASE (k - 1) % 3 = 0 -> v[g + 1] * 4 + v[g + 2] \div 16
                  [] (k - 1) % 3 = 1 -> (v[g + 2] % 16) * 16 + v[g + 3] \div 4
                  [] OTHER -> (v[g + 3] % 4) * 64 + v[g + 4]
    IN  [k \in 1..n |-> byte(k)]

\* The bits of the last symbol that belong to no byte.
TrailingBits(v) ==
    IF Len(v) % 4 = 3 THEN v[Len(v)] % 4
    ELSE IF Len(v) % 4 = 2 THEN v[Len(v)] % 16
    ELSE 0

\* ::base64::decode(input): Ok(bytes) or Err(DecodeError).
Base64Decode(text) ==
    LET body == StripPad(text)
        v == [i \in 1..Len(body) |-> B64Value(body[i])]
    IN  IF \E i \in 1..Len(v) : v[i] = 64
        THEN [ok |-> FALSE, val |-> <<>>]        \* DecodeError::InvalidByte
        ELSE IF Len(v) % 4 = 1
        THEN [ok |-> FALSE, val |-> <<>>]        \* DecodeError::InvalidLength
        ELSE IF TrailingBits(v) # 0
        THEN [ok |-> FALSE, val |-> <<>>]        \* DecodeError::InvalidLastSymbol
        ELSE [ok |-> TRUE, val |-> SextetsToBytes(v)]

(***************************************************************************)
(* One invocation of the decoder: the locals of _decode_track, the place   *)
(* it has reached (pc) and what it returned (ret). log is the history of   *)
(* its cursor operations, each with the position before and after.         *)
(***************************************************************************)

\* Option<String>: None is <<>>, Some(s) is <<s>>.
None == <<>>
Some(s) == <<s>>

Pending == [kind |-> "Pending"]
Ok(track) == [kind |-> "Ok", track |-> track]
Err(error) == [kind |-> "Err", err |-> error]

\* An invocation before its first step: decode_track(input) for entry
\* "bytes", decode_track_base64(text) for entry "base64".
NewCall(entry, text, input) ==
    [entry |-> entry, text |-> text, input |-> input,
     pc |-> IF entry = "base64" THEN "base64" ELSE "new",
     cursor |-> FALSE, pos |-> 0,
     value |-> 0, flags |-> 0, version |-> 0,
     title |-> <<>>, author |-> <<>>, length |-> <<0, 0, 0, 0>>,
     identifier |-> <<>>, stream |-> FALSE, has_url |-> FALSE,
     url |-> None, size |-> 0, source |-> <<>>,
     ret |-> Pending, log |-> <<>>]

\* A cursor operation that succeeded: the history entry and the new position.
Did(d, stage, to) ==
    [d EXCEPT !.log = Append(d.log, [stage |-> stage, ok |-> TRUE,
                                      from |-> d.pos, to |-> to]),
              !.pos = to]

\* Mutant of Failed: the error returned names the stage that failed.
Failed_Annotated(d, stage, error) ==
    [d EXCEPT !.log = Append(d.log, [stage |-> stage, ok |-> FALSE,
                                      from |-> d.pos, to |-> d.pos]),
              !.pc = "failed",
              !.ret = Err([kind |-> error.kind, stage |-> stage])]

\* The operator ? on a failed read: the function returns the error at once.
Failed(d, stage, error) ==
    [d EXCEPT !.log = Append(d.log, [stage |-> stage, ok |-> FALSE,
                                      from |-> d.pos, to |-> d.pos]),
              !.pc = "failed",
              !.ret = Err(error)]

\* Mutant of DoBase64: a text that is not base64 decoded as no bytes
\* (unwrap_or_default in place of ?).
DoBase64_Default(d) ==
    LET r == Base64Decode(d.text)
    IN  [d EXCEPT !.input = r.val, !.pc = "new"]

\* decode_track(::base64::decode(input)?)
DoBase64(d) ==
    LET r == Base64Decode(d.text)
    IN  IF r.ok
        THEN [d EXCEPT !.input = r.val, !.pc = "new"]
        ELSE [d EXCEPT !.pc = "failed", !.ret = Err(ErrBase64)]

\* let mut cursor = Cursor::new(input);
DoNew(d) == [d EXCEPT !.cursor = TRUE, !.pos = 0, !.pc = "header"]

\* let value = cursor.read_u8()?; let flags = ...;
DoHeader(d) ==
    LET r == read_u8(d.input, d.pos)
    IN  IF r.ok
        THEN [Did(d, "header", r.pos) EXCEPT !.value = r.val,
                                             !.flags = FlagsOf(r.val),
                                             !.pc = "skip_header"]
        ELSE Failed(d, "header", ErrIo)

\* move_cursor!(cursor, 2);
DoSkipHeader(d) ==
    [Did(d, "skip_header", move_cursor(d.pos, 2)) EXCEPT !.pc = "version"]

\* Mutant of DoVersion: the arms of the match exchanged.
DoVersion_Exchanged(d) ==
    IF BitAnd(d.flags, TRACK_INFO_VERSIONED) # 0
    THEN [d EXCEPT !.version = 1, !.pc = "skip_reserved"]
    ELSE LET r == read_u8(d.input, d.pos)
         IN  IF r.ok
             THEN [Did(d, "version", r.pos) EXCEPT !.version = r.val,
                                                   !.pc = "skip_reserved"]
             ELSE Failed(d, "version", ErrIo)

\* let version = match flags & TRACK_INFO_VERSIONED { 0 => 1, _ => cursor.read_u8()? };
DoVersion(d) ==
    IF BitAnd(d.flags, TRACK_INFO_VERSIONED) = 0
    THEN [d EXCEPT !.version = 1, !.pc = "skip_reserved"]
    ELSE LET r == read_u8(d.input, d.pos)
         IN  IF r.ok
             THEN [Did(d, "version", r.pos) EXCEPT !.version = r.val,
                                                   !.pc = "skip_reserved"]
             ELSE Failed(d, "version", ErrIo)

\* Mutant of DoSkipReserved: the first of the two bytes is read as the
\* version and only the second is skipped.
DoSkipReserved_AsVersion(d) ==
    LET r == read_u8(d.input, d.pos)
    IN  [Did(d, "skip_reserved", move_cursor(d.pos, 2)) EXCEPT
             !.version = IF r.ok THEN r.val ELSE d.version,
             !.pc = "title"]

\* move_cursor!(cursor, 2); // dont care
DoSkipReserved(d) ==
    [Did(d, "skip_reserved", move_cursor(d.pos, 2)) EXCEPT !.pc = "title"]

\* Mutant of DoTitle: a failed read of title swallowed (unwrap_or_default in
\* place of ?), the decode going on with an empty title.
DoTitle_Swallowed(d) ==
    LET r == read_string(d.input, d.pos)
    IN  IF r.ok
        THEN [Did(d, "title", r.pos) EXCEPT !.title = r.val, !.pc = "author"]
        ELSE [d EXCEPT !.log = Append(d.log, [stage |-> "title", ok |-> FALSE,
                                               from |-> d.pos, to |-> d.pos]),
                       !.pc = "author"]

\* let title = read_string(&mut cursor)?;
DoTitle(d) ==
    LET r == read_string(d.input, d.pos)
    IN  IF r.ok
        THEN [Did(d, "title", r.pos) EXCEPT !.title = r.val, !.pc = "author"]
        ELSE Failed(d, "title", r.err)

\* let author = read_string(&mut cursor)?;
DoAuthor(d) ==
    LET r == read_string(d.input, d.pos)
    IN  IF r.ok
        THEN [Did(d, "author", r.pos) EXCEPT !.author = r.val, !.pc = "length"]
        ELSE Failed(d, "author", r.err)

\* let length = cursor.read_u64::<BE>()?;
DoLength(d) ==
    LET r == read_u64(d.input, d.pos)
    IN  IF r.ok
        THEN [Did(d, "length", r.pos) EXCEPT !.length = r.val,
                                             !.pc = "identifier"]
        ELSE Failed(d, "length", ErrIo)

\* let identifier = read_string(&mut cursor)?;
DoIdentifier(d) ==
    LET r == read_string(d.input, d.pos)
    IN  IF r.ok
        THEN [Did(d, "identifier", r.pos) EXCEPT !.identifier = r.val,
                                                 !.pc = "stream"]
        ELSE Failed(d, "identifier", r.err)

\* Mutant of DoStream: every byte but 0 taken as true.
DoStream_NonZero(d) ==
    LET r == read_u8(d.input, d.pos)
    IN  IF r.ok
        THEN [Did(d, "stream", r.pos) EXCEPT !.stream = (r.val # 0),
                                             !.pc = "has_url"]
        ELSE Failed(d, "stream", ErrIo)

\* let stream = cursor.read_u8()? == 1;
DoStream(d) ==
    LET r == read_u8(d.input, d.pos)
    IN  IF r.ok
        THEN [Did(d, "stream", r.pos) EXCEPT !.stream = (r.val = 1),
                                             !.pc = "has_url"]
        ELSE Failed(d, "stream", ErrIo)

\* Mutant of DoHasUrl: without a URL nothing more is read before source
\* (else { None }).
DoHasUrl_NoPlaceholder(d) ==
    LET r == read_u8(d.input, d.pos)
    IN  IF r.ok
        THEN [Did(d, "has_url", r.pos) EXCEPT
                  !.has_url = (r.val = 1),
                  !.pc = IF r.val = 1 THEN "url" ELSE "source"]
        ELSE Failed(d, "has_url", ErrIo)

\* let has_url = cursor.read_u8()? == 1; and the branch on it.
DoHasUrl(d) ==
    LET r == read_u8(d.input, d.pos)
    IN  IF r.ok
        THEN [Did(d, "has_url", r.pos) EXCEPT
                  !.has_url = (r.val = 1),
                  !.pc = IF r.val = 1 THEN "url" ELSE "skip_size"]
        ELSE Failed(d, "has_url", ErrIo)

\* Some(read_string(&mut cursor)?)
DoUrl(d) ==
    LET r == read_string(d.input, d.pos)
    IN  IF r.ok
        THEN [Did(d, "url", r.pos) EXCEPT !.url = Some(r.val), !.pc = "source"]
        ELSE Failed(d, "url", r.err)

\* let size = u64::from(cursor.read_u8()?);
DoSkipSize(d) ==
    LET r == read_u8(d.input, d.pos)
    IN  IF r.ok
        THEN [Did(d, "skip_size", r.pos) EXCEPT !.size = r.val,
                                                !.pc = "skip_padding"]
        ELSE Failed(d, "skip_size", ErrIo)

\* Mutant of DoSkipPadding: the new position clamped to the length of the
\* buffer (a seek that saturates at the end).
DoSkipPadding_Clamped(d) ==
    [Did(d, "skip_padding", Min(move_cursor(d.pos, d.size), Len(d.input))) EXCEPT
         !.url = None, !.pc = "source"]

\* Mutant of DoSkipPadding: the padding is not skipped.
DoSkipPadding_Stays(d) ==
    [Did(d, "skip_padding", d.pos) EXCEPT !.url = None, !.pc = "source"]

\* Mutant of DoSkipPadding: set_position(size), the position left out.
DoSkipPadding_Absolute(d) ==
    [Did(d, "skip_padding", d.size) EXCEPT !.url = None, !.pc = "source"]

\* move_cursor!(cursor, size); None
DoSkipPadding(d) ==
    [Did(d, "skip_padding", move_cursor(d.pos, d.size)) EXCEPT
         !.url = None, !.pc = "source"]

\* The DecodedTrack built from the locals.
TrackOf(d) ==
    [version |-> d.version, title |-> d.title, author |-> d.author,
     length |-> d.length, identifier |-> d.identifier, stream |-> d.stream,
     url |-> d.url, source |-> d.source]

\* Mutant of DoSource: input left over after the source is an error.
DoSource_Exhaustive(d) ==
    LET r == read_string(d.input, d.pos)
    IN  IF r.ok /\ r.pos = Len(d.input)
        THEN LET e == [Did(d, "source", r.pos) EXCEPT !.source = r.val,
                                                      !.pc = "done"]
             IN  [e EXCEPT !.ret = Ok(TrackOf(e))]
        ELSE Failed(d, "source", IF r.ok THEN ErrIo ELSE r.err)

\* let source = read_string(&mut cursor)?; Ok(DecodedTrack { .. })
DoSource(d) ==
    LET r == read_string(d.input, d.pos)
    IN  IF r.ok
        THEN LET e == [Did(d, "source", r.pos) EXCEPT !.source = r.val,
                                                      !.pc = "done"]
             IN  [e EXCEPT !.ret = Ok(TrackOf(e))]
        ELSE Failed(d, "source", r.err)

\* The step an invocation takes at its pc.
StepOf(d) ==
    CASE d.pc = "base64" -> DoBase64(d)
      [] d.pc = "new" -> DoNew(d)
      [] d.pc = "header" -> DoHeader(d)
      [] d.pc = "skip_header" -> DoSkipHeader(d)
      [] d.pc = "version" -> DoVersion(d)
      [] d.pc = "skip_reserved" -> DoSkipReserved(d)
      [] d.pc = "title" -> DoTitle(d)
      [] d.pc = "author" -> DoAuthor(d)
      [] d.pc = "length" -> DoLength(d)
      [] d.pc = "identifier" -> DoIdentifier(d)
      [] d.pc = "stream" -> DoStream(d)
      [] d.pc = "has_url" -> DoHasUrl(d)
      [] d.pc = "url" -> DoUrl(d)
      [] d.pc = "skip_size" -> DoSkipSize(d)
      [] d.pc = "skip_padding" -> DoSkipPadding(d)
      [] d.pc = "source" -> DoSource(d)
      [] OTHER -> d

Terminal(d) == d.pc \in {"done", "failed"}

RECURSIVE Run(_)
\* An invocation run to its return.
Run(d) == IF Terminal(d) THEN d ELSE Run(StepOf(d))

\* decode_track(input), as the invocation at its return.
decode_track(input) == Run(NewCall("bytes", <<>>, input))

\* decode_track_base64(input), as the invocation at its return.
decode_track_base64(text) == Run(NewCall("base64", text, <<>>))

(***************************************************************************)
(* The inputs. A wire is what a producer puts on the wire in the canonical *)
(* layout: header byte, 2 skipped bytes, the version byte when the header  *)
(* has the versioned bit (0x40), 2 skipped bytes, title, author, duration, *)
(* identifier, stream byte, has-URL byte, then the URL or a skip-length    *)
(* byte and that much padding, then source.                                *)
(***************************************************************************)

\* A string with its 16-bit big-endian length prefix.
Str16(s) == <<Len(s) \div 256, Len(s) % 256>> \o s

\* The eight big-endian bytes of a u64 given as four 16-bit words.
U64Bytes(w) ==
    <<w[1] \div 256, w[1] % 256, w[2] \div 256, w[2] % 256,
      w[3] \div 256, w[3] % 256, w[4] \div 256, w[4] % 256>>

\* The u64 of a natural below 2^31.
U64(n) == <<0, 0, n \div 65536, n % 65536>>

Build(w) ==
    <<w.hdr>> \o w.skipA \o w.ver \o w.skipB
      \o Str16(w.title) \o Str16(w.author) \o U64Bytes(w.duration)
      \o Str16(w.identifier) \o <<w.stream, w.hasUrl>>
      \o (IF w.layout = "url" THEN Str16(w.url) ELSE <<Len(w.pad)>> \o w.pad)
      \o Str16(w.source)

\* The header bit that announces a version byte: bit 30 of the 32-bit
\* header word, bit 6 of its first byte.
Versioned(hdr) == (hdr \div 64) % 2 = 1

Wire(hdr, title, author, duration, identifier, stream, hasUrl, url, padLen, source) ==
    [hdr |-> hdr, skipA |-> <<1, 2>>,
     ver |-> IF Versioned(hdr) THEN <<2>> ELSE <<>>,
     skipB |-> <<3, 4>>,
     title |-> title, author |-> author, duration |-> duration,
     identifier |-> identifier, stream |-> stream, hasUrl |-> hasUrl,
     layout |-> IF hasUrl = 1 THEN "url" ELSE "pad",
     url |-> url, pad |-> [i \in 1..padLen |-> 170], source |-> source]

\* title "Test", author "Author", duration 180000, identifier "abc",
\* stream 0x00, hasUrl 0x00, skipLen 0x00, source "local".
ExampleWire ==
    Wire(0, <<84, 101, 115, 116>>, <<65, 117, 116, 104, 111, 114>>, U64(180000),
         <<97, 98, 99>>, 0, 0, <<>>, 0, <<108, 111, 99, 97, 108>>)

\* The bytes strings are made of: "A" and the two bytes of U+00E9.
StrBytes == {65, 195, 169}

\* The strings of at most n bytes.
Strs(n) == {s \in UNION {[1..k -> StrBytes] : k \in 0..n} : Utf8Valid(s)}

StringFields == {"title", "author", "identifier", "url", "source"}

\* The string fields of a wire that are on the wire with at least one byte.
Present(w) ==
    {f \in StringFields : Len(w[f]) > 0 /\ (f = "url" => w.layout = "url")}

\* The wire with the payload of field f replaced, its length prefix kept.
Replaced(w, f, bytes) == IF f = "none" THEN w ELSE [w EXCEPT ![f] = bytes]

\* Byte sequences of the length of s that are not UTF-8: every byte 0xFF,
\* or one byte of s replaced by 0xFF, 0x80 (a continuation byte alone) or
\* 0xC3 (a lead byte).
InvalidLike(s) ==
    {b \in {[i \in 1..Len(s) |-> 255]}
           \cup {[s EXCEPT ![p] = x] : p \in 1..Len(s), x \in {255, 128, 195}} :
       ~Utf8Valid(b)}

B64Char(v) ==
    IF v < 26 THEN 65 + v
    ELSE IF v < 52 THEN 71 + v
    ELSE IF v < 62 THEN v - 4
    ELSE IF v = 62 THEN 43
    ELSE 47

\* The canonical base64 text of a byte sequence, padded with '='.
Base64Encode(b) ==
    LET n == Len(b)
        at(k) == IF k <= n THEN b[k] ELSE 0
        char(i) ==
            LET g == 3 * ((i - 1) \div 4)
            IN  CASE (i - 1) % 4 = 0 -> B64Char(at(g + 1) \div 4)
                  [] (i - 1) % 4 = 1 ->
                       B64Char((at(g + 1) % 4) * 16 + at(g + 2) \div 16)
                  [] (i - 1) % 4 = 2 ->
                       IF g + 2 > n THEN 61
                       ELSE B64Char((at(g + 2) % 16) * 4 + at(g + 3) \div 64)
                  [] OTHER ->
                       IF g + 3 > n THEN 61 ELSE B64Char(at(g + 3) % 64)
    IN  [i \in 1..(4 * ((n + 2) \div 3)) |-> char(i)]

\* Texts that are not base64: "!" for a symbol, "=" before the end, or one
\* symbol more than whole groups of four.
Damaged(text, damage) ==
    CASE damage = "symbol" ->
           IF text = <<>> THEN <<33>> ELSE [text EXCEPT ![Len(text)] = 33]
      [] damage = "pad" ->
           IF text = <<>> THEN <<61, 65>> ELSE [text EXCEPT ![1] = 61]
      [] damage = "length" -> text \o <<65>>
      [] OTHER -> text

Damages == {"none", "symbol", "pad", "length"}

(***************************************************************************)
(* AudioPlayerManager (src/src/player.rs): the map players from a guild id *)
(* to an Arc<Mutex<AudioPlayer>>. An Arc is the number of its allocation   *)
(* (arc) and the AudioPlayer it holds.                                     *)
(***************************************************************************)

\* Error::PlayerAlreadyExists
ErrPlayerAlreadyExists == [kind |-> "PlayerAlreadyExists"]

\* AudioPlayerManager::new(): Self::default(), a map without entries.
AudioPlayerManager_new == [guild_id \in {} |-> {}]

\* AudioPlayer::new(sender, guild_id)
AudioPlayer_new(sender, guild_id) ==
    [sender |-> sender, guild_id |-> guild_id, track |-> None, time |-> 0,
     position |-> 0, paused |-> FALSE, volume |-> 100, listeners |-> <<>>]

\* AudioPlayerManager::new_player: Arc::new(Mutex::new(AudioPlayer::new(..))),
\* arc being the allocation the Arc points to.
new_player(sender, guild_id, arc) ==
    [arc |-> arc, player |-> AudioPlayer_new(sender, guild_id)]

\* HashMap::insert: the entry of the key added or replaced.
Insert(map, key, value) ==
    [k \in DOMAIN map \cup {key} |-> IF k = key THEN value ELSE map[k]]

\* Mutant of create_player: without the test of contains_key, so the insert
\* replaces the player the guild has.
create_player_replacing(map, sender, guild_id, arc) ==
    LET inserted == Insert(map, guild_id, new_player(sender, guild_id, arc))
    IN  [players |-> inserted, ret |-> Ok(inserted[guild_id].arc)]

\* AudioPlayerManager::create_player(&mut self, sender, guild_id) on the map
\* map, arc being the next allocation: the map after it and what it returns,
\* Ok with a clone of the Arc or Err.
create_player(map, sender, guild_id, arc) ==
    IF guild_id \in DOMAIN map
    THEN [players |-> map, ret |-> Err(ErrPlayerAlreadyExists)]
    ELSE LET inserted == Insert(map, guild_id, new_player(sender, guild_id, arc))
         IN  [players |-> inserted, ret |-> Ok(inserted[guild_id].arc)]

\* AudioPlayerManager::has_player(&self, guild_id)
has_player(map, guild_id) == guild_id \in DOMAIN map

\* AudioPlayerManager::get_player(&self, guild_id): a clone of the Arc.
get_player(map, guild_id) ==
    IF guild_id \in DOMAIN map THEN Some(map[guild_id].arc) ELSE None

\* AudioPlayer::add_listener(&mut self, listener) on the player of an Arc.
add_listener(shared, listener) ==
    [shared EXCEPT !.player.listeners = Append(@, listener)]

(***************************************************************************)
(* The state: the invocations (call) and, for each, the input it was       *)
(* given as the producer made it (fixture); and the players of the         *)
(* AudioPlayerManager (players).                                           *)
(***************************************************************************)

VARIABLES call, fixture, players

vars == <<call, fixture, players>>

\* One invocation on the wire w with field corrupt (or "none") replaced by
\* 0xFF bytes, cut to its first cut bytes, given as bytes or as base64 text;
\* the text of an image, whole or cut to nothing, may be damaged.
Start(w) ==
    \E corrupt \in {"none"} \cup Present(w) :
      LET sent == Replaced(w, corrupt,
                           IF corrupt = "none" THEN <<>>
                           ELSE [i \in 1..Len(w[corrupt]) |-> 255])
          image == Build(sent)
      IN  \E cut \in 0..Len(image), entry \in {"bytes", "base64"},
             damage \in Damages :
            LET bytes == SubSeq(image, 1, cut)
                text == Damaged(Base64Encode(bytes), damage)
            IN  /\ entry = "bytes" => damage = "none"
                /\ damage # "none" => cut \in {0, Len(image)}
                /\ fixture = <<[wire |-> w, corrupt |-> corrupt, cut |-> cut,
                                full |-> Len(image), bytes |-> bytes,
                                damage |-> damage]>>
                /\ call = <<IF entry = "bytes"
                            THEN NewCall("bytes", <<>>, bytes)
                            ELSE NewCall("base64", text, <<>>)>>
                /\ players = AudioPlayerManager_new

Cost(b) == IF b = 0 THEN 0 ELSE 1

\* Every wire of size at most MaxSize.
InitSized ==
    \E hdr \in {0, 64}, stream \in {0, 1, 2}, hasUrl \in {0, 1, 2},
       duration \in {U64(0), U64(180000)} :
      LET n1 == Cost(hdr) + Cost(stream) + Cost(hasUrl) + Cost(duration[4])
      IN  /\ n1 <= MaxSize
          /\ \E title \in Strs(MaxSize - n1) :
               LET n2 == n1 + Len(title)
               IN  \E author \in Strs(MaxSize - n2) :
                     LET n3 == n2 + Len(author)
                     IN  \E identifier \in Strs(MaxSize - n3) :
                           LET n4 == n3 + Len(identifier)
                           IN  \E source \in Strs(MaxSize - n4) :
                                 LET n5 == n4 + Len(source)
                                 IN  \E tail \in 0..(MaxSize - n5) :
                                       \E url \in IF hasUrl = 1
                                                  THEN {s \in Strs(tail) : Len(s) = tail}
                                                  ELSE {<<>>} :
                                         Start(Wire(hdr, title, author, duration,
                                                    identifier, stream, hasUrl, url,
                                                    IF hasUrl = 1 THEN 0 ELSE tail,
                                                    source))

Init == InitSized \/ Start(ExampleWire)

\* decode_track_base64: ::base64::decode(input)?
Base64Step ==
    \E i \in DOMAIN call :
      /\ call[i].pc = "base64"
      /\ call' = [call EXCEPT ![i] = DoBase64(call[i])]
      /\ UNCHANGED <<fixture, players>>

\* Mutant of NewCursor: the cursor is one module-level object that is given
\* the new buffer without its position being reset, so a decode starts
\* where the decode before it ended.
NewCursor_Reused ==
    \E i \in DOMAIN call :
      /\ call[i].pc = "new"
      /\ call' = [call EXCEPT ![i] =
                    [DoNew(call[i]) EXCEPT
                       !.pos = IF i > 1 THEN call[i - 1].pos ELSE 0]]
      /\ UNCHANGED <<fixture, players>>

\* Cursor::new(input)
NewCursor ==
    \E i \in DOMAIN call :
      /\ call[i].pc = "new"
      /\ call' = [call EXCEPT ![i] = DoNew(call[i])]
      /\ UNCHANGED <<fixture, players>>

\* cursor.read_u8()? and the flags
ReadHeader ==
    \E i \in DOMAIN call :
      /\ call[i].pc = "header"
      /\ call' = [call EXCEPT ![i] = DoHeader(call[i])]
      /\ UNCHANGED <<fixture, players>>

\* Mutant of SkipHeader: the position is one module-level offset, so the
\* skip moves the position of every invocation that has a cursor.
SkipHeader_Shared ==
    \E i \in DOMAIN call :
      /\ call[i].pc = "skip_header"
      /\ call' = [j \in DOMAIN call |->
                    IF j = i THEN DoSkipHeader(call[i])
                    ELSE IF call[j].cursor /\ ~Terminal(call[j])
                    THEN [call[j] EXCEPT !.pos = move_cursor(@, 2)]
                    ELSE call[j]]
      /\ UNCHANGED <<fixture, players>>

\* move_cursor!(cursor, 2)
SkipHeader ==
    \E i \in DOMAIN call :
      /\ call[i].pc = "skip_header"
      /\ call' = [call EXCEPT ![i] = DoSkipHeader(call[i])]
      /\ UNCHANGED <<fixture, players>>

\* the match on flags & TRACK_INFO_VERSIONED
ReadVersion ==
    \E i \in DOMAIN call :
      /\ call[i].pc = "version"
      /\ call' = [call EXCEPT ![i] = DoVersion(call[i])]
      /\ UNCHANGED <<fixture, players>>

\* move_cursor!(cursor, 2)
SkipReserved ==
    \E i \in DOMAIN call :
      /\ call[i].pc = "skip_reserved"
      /\ call' = [call EXCEPT ![i] = DoSkipReserved(call[i])]
      /\ UNCHANGED <<fixture, players>>

\* read_string, for title
ReadTitle ==
    \E i \in DOMAIN call :
      /\ call[i].pc = "title"
      /\ call' = [call EXCEPT ![i] = DoTitle(call[i])]
      /\ UNCHANGED <<fixture, players>>

\* read_string, for author
ReadAuthor ==
    \E i \in DOMAIN call :
      /\ call[i].pc = "author"
      /\ call' = [call EXCEPT ![i] = DoAuthor(call[i])]
      /\ UNCHANGED <<fixture, players>>

\* cursor.read_u64::<BE>()?
ReadLength ==
    \E i \in DOMAIN call :
      /\ call[i].pc = "length"
      /\ call' = [call EXCEPT ![i] = DoLength(call[i])]
      /\ UNCHANGED <<fixture, players>>

\* read_string, for identifier
ReadIdentifier ==
    \E i \in DOMAIN call :
      /\ call[i].pc = "identifier"
      /\ call' = [call EXCEPT ![i] = DoIdentifier(call[i])]
      /\ UNCHANGED <<fixture, players>>

\* cursor.read_u8()? == 1, for stream
ReadStream ==
    \E i \in DOMAIN call :
      /\ call[i].pc = "stream"
      /\ call' = [call EXCEPT ![i] = DoStream(call[i])]
      /\ UNCHANGED <<fixture, players>>

\* cursor.read_u8()? == 1, for has_url
ReadHasUrl ==
    \E i \in DOMAIN call :
      /\ call[i].pc = "has_url"
      /\ call' = [call EXCEPT ![i] = DoHasUrl(call[i])]
      /\ UNCHANGED <<fixture, players>>

\* Some(read_string(&mut cursor)?)
ReadUrl ==
    \E i \in DOMAIN call :
      /\ call[i].pc = "url"
      /\ call' = [call EXCEPT ![i] = DoUrl(call[i])]
      /\ UNCHANGED <<fixture, players>>

\* u64::from(cursor.read_u8()?)
ReadSkipSize ==
    \E i \in DOMAIN call :
      /\ call[i].pc = "skip_size"
      /\ call' = [call EXCEPT ![i] = DoSkipSize(call[i])]
      /\ UNCHANGED <<fixture, players>>

\* move_cursor!(cursor, size)
SkipPadding ==
    \E i \in DOMAIN call :
      /\ call[i].pc = "skip_padding"
      /\ call' = [call EXCEPT ![i] = DoSkipPadding(call[i])]
      /\ UNCHANGED <<fixture, players>>

\* read_string, for source, and the return of Ok
ReadSource ==
    \E i \in DOMAIN call :
      /\ call[i].pc = "source"
      /\ call' = [call EXCEPT ![i] = DoSource(call[i])]
      /\ UNCHANGED <<fixture, players>>

Next ==
    \/ Base64Step
    \/ NewCursor
    \/ ReadHeader
    \/ SkipHeader
    \/ ReadVersion
    \/ SkipReserved
    \/ ReadTitle
    \/ ReadAuthor
    \/ ReadLength
    \/ ReadIdentifier
    \/ ReadStream
    \/ ReadHasUrl
    \/ ReadUrl
    \/ ReadSkipSize
    \/ SkipPadding
    \/ ReadSource

Spec == Init /\ [][Next]_vars

(***************************************************************************)
(* What the claims speak of.                                               *)
(***************************************************************************)

\* The input was given as bytes, whole and as the producer built it.
Intact(i) ==
    /\ call[i].entry = "bytes"
    /\ fixture[i].corrupt = "none"
    /\ fixture[i].cut = fixture[i].full

\* The history entries of an invocation for one stage.
Entries(d, stage) == {k \in 1..Len(d.log) : d.log[k].stage = stage}

\* The history entry of a stage that ran once.
Entry(d, stage) == d.log[CHOOSE k \in Entries(d, stage) : TRUE]

\* buf with the bytes from offset from on replaced by bytes.
Overwrite(buf, from, bytes) ==
    [k \in 1..Len(buf) |->
       IF k > from /\ k <= from + Len(bytes) THEN bytes[k - from] ELSE buf[k]]

\* The record a producer expects back for a wire.
Expected(w) ==
    [version |-> 1, title |-> w.title, author |-> w.author,
     length |-> w.duration, identifier |-> w.identifier,
     stream |-> (w.stream = 1),
     url |-> IF w.layout = "url" THEN Some(w.url) ELSE None,
     source |-> w.source]

\* The input is a canonical image: whole, versioned bit clear, the stream and
\* has-URL bytes 0 or 1.
C1_Canonical(i) ==
    /\ Intact(i)
    /\ ~Versioned(fixture[i].wire.hdr)
    /\ fixture[i].wire.stream \in {0, 1}
    /\ fixture[i].wire.hasUrl \in {0, 1}

(***************************************************************************)
(* C1. A buffer built in the canonical layout (versioned bit clear, stream *)
(* and has-URL bytes 0 or 1) from known field values decodes to Ok with    *)
(* exactly those values; the buffer of the example decodes to version 1,   *)
(* "Test", "Author", 180000, "abc", stream false, url None, "local".       *)
(***************************************************************************)
C1_BuiltBufferDecodesToItsFields ==
    \A i \in DOMAIN call :
      Terminal(call[i]) /\ C1_Canonical(i) =>
        /\ call[i].ret = Ok(Expected(fixture[i].wire))
        /\ fixture[i].wire = ExampleWire =>
             call[i].ret =
               Ok([version |-> 1, title |-> <<84, 101, 115, 116>>,
                   author |-> <<65, 117, 116, 104, 111, 114>>,
                   length |-> <<0, 0, 2, 48928>>,
                   identifier |-> <<97, 98, 99>>, stream |-> FALSE,
                   url |-> None, source |-> <<108, 111, 99, 97, 108>>])

C1_Witness ==
    \E i \in DOMAIN call :
      /\ call[i].pc = "done"
      /\ C1_Canonical(i)
      /\ fixture[i].wire = ExampleWire

(***************************************************************************)
(* C2. When a buffer decodes to Ok with the cursor at its end, every       *)
(* strict prefix of it decodes to Err(Io(UnexpectedEof)).                  *)
(***************************************************************************)
C2_EveryStrictPrefixIsUnexpectedEof ==
    \A i \in DOMAIN call :
      call[i].pc = "done" /\ call[i].pos = Len(call[i].input) =>
        \A k \in 0..(Len(call[i].input) - 1) :
          decode_track(SubSeq(call[i].input, 1, k)).ret = Err(ErrIo)

C2_Witness ==
    \E i \in DOMAIN call :
      /\ call[i].pc = "done"
      /\ call[i].pos = Len(call[i].input)
      /\ call[i].ret.track.url # None
      /\ Len(call[i].ret.track.source) > 0

(***************************************************************************)
(* C3. When a buffer decodes to Ok, replacing the payload of any of its    *)
(* non-empty string fields by bytes of the same length that are not UTF-8  *)
(* makes the decode return Err(ParseUtf8) with those bytes; so does the    *)
(* buffer a producer sends with such a field.                              *)
(***************************************************************************)
C3_InvalidUtf8IsParseUtf8 ==
    \A i \in DOMAIN call :
      /\ call[i].pc = "done" =>
           \A f \in StringFields :
             \A k \in Entries(call[i], f) :
               LET e == call[i].log[k]
                   payload == SubSeq(call[i].input, e.from + 3, e.to)
               IN  \A bad \in InvalidLike(payload) :
                     decode_track(Overwrite(call[i].input, e.from + 2, bad)).ret
                       = Err(ErrParseUtf8(bad))
      /\ /\ Terminal(call[i])
         /\ call[i].entry = "bytes"
         /\ fixture[i].corrupt # "none"
         /\ fixture[i].cut = fixture[i].full
         /\ ~Versioned(fixture[i].wire.hdr)
         => call[i].ret =
              Err(ErrParseUtf8([p \in 1..Len(fixture[i].wire[fixture[i].corrupt])
                                  |-> 255]))

C3_Witness ==
    \E i \in DOMAIN call :
      /\ call[i].pc = "failed"
      /\ call[i].entry = "bytes"
      /\ fixture[i].corrupt = "source"
      /\ fixture[i].cut = fixture[i].full
      /\ call[i].ret.err.kind = "ParseUtf8"

\* The wire with its URL part replaced by has-URL = 1 and the URL u.
WithUrl(w, u) ==
    [w EXCEPT !.hasUrl = 1, !.layout = "url", !.url = u, !.pad = <<>>]

\* The wire with its URL part replaced by has-URL = 0 and n padding bytes.
WithPad(w, n) ==
    [w EXCEPT !.hasUrl = 0, !.layout = "pad", !.url = <<>>,
              !.pad = [k \in 1..n |-> 170]]

\* The other branch's buffers for a wire.
C4_Others(w) ==
    IF w.layout = "url"
    THEN {WithPad(w, n) : n \in 0..MaxSize}
    ELSE {WithUrl(w, u) : u \in Strs(MaxSize)}

\* d read source from the first byte of the source field of wire w.
C4_SourceInPlace(d, w) ==
    /\ Entries(d, "source") # {}
    /\ Entry(d, "source").from = Len(Build(w)) - Len(Str16(w.source))
    /\ Entry(d, "source").to = Len(Build(w))

(***************************************************************************)
(* C4. A buffer with has-URL = 1 and a URL string, and the buffer that     *)
(* differs from it only in carrying has-URL = 0, a skip-length byte n and  *)
(* n padding bytes, decode to the same title, author, length, identifier,  *)
(* stream and source, and in both the read of source starts at the first   *)
(* byte of the source field.                                               *)
(***************************************************************************)
C4_BothBranchesReachSource ==
    \A i \in DOMAIN call :
      /\ call[i].pc = "done"
      /\ Intact(i)
      /\ ~Versioned(fixture[i].wire.hdr)
      => /\ C4_SourceInPlace(call[i], fixture[i].wire)
         /\ call[i].ret.track.source = fixture[i].wire.source
         /\ \A o \in C4_Others(fixture[i].wire) :
              LET other == decode_track(Build(o))
              IN  /\ other.pc = "done"
                  /\ C4_SourceInPlace(other, o)
                  /\ other.ret.track.url # call[i].ret.track.url
                       => [other.ret.track EXCEPT !.url = None]
                            = [call[i].ret.track EXCEPT !.url = None]

C4_Witness ==
    \E i \in DOMAIN call :
      /\ call[i].pc = "done"
      /\ Intact(i)
      /\ ~Versioned(fixture[i].wire.hdr)
      /\ fixture[i].wire.layout = "pad"
      /\ Len(fixture[i].wire.pad) = 1
      /\ Len(fixture[i].wire.source) = 1

\* The stages before the version is settled.
BeforeVersion == {"base64", "new", "header", "skip_header", "version"}

(***************************************************************************)
(* C5. When the versioned bit of the header byte is clear, the decoder     *)
(* reports version 1 and reads no version byte: the title's length prefix  *)
(* is read at offset 5, after the header byte and the 2 + 2 skipped bytes. *)
(***************************************************************************)
C5_UnversionedIsVersionOne ==
    \A i \in DOMAIN call :
      /\ call[i].cursor
      /\ Len(call[i].input) > 0
      /\ ~Versioned(call[i].input[1])
      => /\ Entries(call[i], "version") = {}
         /\ call[i].pc \notin BeforeVersion \cup {"failed"} => call[i].version = 1
         /\ \A k \in Entries(call[i], "title") : call[i].log[k].from = 5
         /\ call[i].pc = "done" => call[i].ret.track.version = 1

C5_Witness ==
    \E i \in DOMAIN call :
      /\ call[i].pc = "done"
      /\ ~Versioned(call[i].input[1])
      /\ Len(call[i].ret.track.title) > 0

(***************************************************************************)
(* C6. When the versioned bit of the header byte is set, the decoder reads *)
(* exactly one version byte, at offset 3 (after the header byte and the    *)
(* first 2 skipped bytes), and returns its value as the version.           *)
(***************************************************************************)
C6_VersionedReadsVersionByte ==
    \A i \in DOMAIN call :
      /\ call[i].cursor
      /\ Len(call[i].input) > 3
      /\ Versioned(call[i].input[1])
      /\ call[i].pc \notin BeforeVersion
      => /\ Cardinality(Entries(call[i], "version")) = 1
         /\ \A k \in Entries(call[i], "version") :
              call[i].log[k].from = 3 /\ call[i].log[k].to = 4
         /\ call[i].version = call[i].input[4]
         /\ call[i].pc = "done" => call[i].ret.track.version = call[i].input[4]

\* The byte of the input that the stage read (a one-byte read).
ByteRead(d, stage) == d.input[Entry(d, stage).from + 1]

(***************************************************************************)
(* C7. In a decode that returns Ok, url is Some exactly when the has-URL   *)
(* byte of the input is 1; for any other value url is None, no URL string  *)
(* is read, and the decoder reads one skip-length byte right after the     *)
(* has-URL byte and moves the cursor on by its value.                      *)
(***************************************************************************)
C7_UrlIffHasUrlByteIsOne ==
    \A i \in DOMAIN call :
      call[i].pc = "done" =>
        LET d == call[i]
            flag == ByteRead(d, "has_url")
        IN  /\ (d.ret.track.url # None) <=> (flag = 1)
            /\ flag = 1 =>
                 /\ Entries(d, "skip_size") = {} /\ Entries(d, "skip_padding") = {}
                 /\ Cardinality(Entries(d, "url")) = 1
                 /\ Entry(d, "url").from = Entry(d, "has_url").to
            /\ flag # 1 =>
                 /\ Entries(d, "url") = {}
                 /\ Cardinality(Entries(d, "skip_size")) = 1
                 /\ Cardinality(Entries(d, "skip_padding")) = 1
                 /\ Entry(d, "skip_size").from = Entry(d, "has_url").to
                 /\ Entry(d, "skip_size").to = Entry(d, "skip_size").from + 1
                 /\ Entry(d, "skip_padding").from = Entry(d, "skip_size").to
                 /\ Entry(d, "skip_padding").to
                      = Entry(d, "skip_padding").from + ByteRead(d, "skip_size")
                 /\ Entry(d, "source").from = Entry(d, "skip_padding").to

C7_Witness ==
    \E i \in DOMAIN call :
      /\ call[i].pc = "done"
      /\ ByteRead(call[i], "has_url") = 2
      /\ ByteRead(call[i], "skip_size") = 1
      /\ call[i].ret.track.url = None

\* The order of the cursor operations of a decode that takes the URL branch
\* or the padding branch, without the version read.
StagesWithUrl ==
    <<"header", "skip_header", "skip_reserved", "title", "author", "length",
      "identifier", "stream", "has_url", "url", "source">>
StagesWithPadding ==
    <<"header", "skip_header", "skip_reserved", "title", "author", "length",
      "identifier", "stream", "has_url", "skip_size", "skip_padding", "source">>

\* The stages of the history, without the version read.
StagesDone(d) ==
    LET keep == {k \in 1..Len(d.log) : d.log[k].stage # "version"}
        nth(j) == CHOOSE k \in keep : Cardinality({m \in keep : m < k}) = j - 1
    IN  [j \in 1..Cardinality(keep) |-> d.log[nth(j)].stage]

IsPrefix(s, t) == Len(s) <= Len(t) /\ s = SubSeq(t, 1, Len(s))

\* The bytes a stage needs from the position it starts at.
Needs(d, e) ==
    IF e.stage \in StringFields
    THEN IF e.from + 2 > Len(d.input) THEN 2
         ELSE 2 + 256 * d.input[e.from + 1] + d.input[e.from + 2]
    ELSE IF e.stage = "length" THEN 8
    ELSE 1

\* The error of a history entry that failed: UnexpectedEof when the bytes
\* it needs are not there, else the ParseUtf8 of its payload.
ErrorOf(d, e) ==
    IF e.from + Needs(d, e) > Len(d.input)
    THEN ErrIo
    ELSE ErrParseUtf8(SubSeq(d.input, e.from + 3, e.from + Needs(d, e)))

(***************************************************************************)
(* C8. A decode is all-or-nothing and fail-fast: its cursor operations run *)
(* in the fixed order of the fields, the first one that fails is the last  *)
(* one made and its error is the one returned, with no record; and Ok is   *)
(* returned only after every field was read, with the values read. With    *)
(* invalid UTF-8 in title and a truncated author the error is the          *)
(* ParseUtf8 of title.                                                     *)
(***************************************************************************)
C8_FailFastAllOrNothing ==
    \A i \in DOMAIN call :
      LET d == call[i]
          n == Len(d.log)
      IN  /\ IsPrefix(StagesDone(d), StagesWithUrl)
               \/ IsPrefix(StagesDone(d), StagesWithPadding)
          /\ \A k \in 1..n :
               /\ k < n => d.log[k].ok
               /\ k > 1 => d.log[k].from = d.log[k - 1].to
               /\ ~d.log[k].ok => d.pc = "failed" /\ d.ret = Err(ErrorOf(d, d.log[k]))
          /\ d.pc = "failed" /\ d.cursor => n > 0 /\ ~d.log[n].ok
          /\ d.pc = "failed" <=> d.ret.kind = "Err"
          /\ d.pc = "done" <=> d.ret.kind = "Ok"
          /\ d.pc = "done" =>
               /\ d.ret = Ok(TrackOf(d))
               /\ StagesDone(d) \in {StagesWithUrl, StagesWithPadding}
               /\ \A k \in 1..n : d.log[k].ok
          /\ /\ Terminal(d)
             /\ d.entry = "bytes"
             /\ fixture[i].corrupt = "title"
             /\ ~Versioned(fixture[i].wire.hdr)
             /\ fixture[i].cut >= 7 + Len(fixture[i].wire.title)
             => /\ d.ret = Err(ErrParseUtf8([p \in 1..Len(fixture[i].wire.title)
                                               |-> 255]))
                /\ d.log[n].stage = "title"

C8_Witness ==
    \E i \in DOMAIN call :
      /\ call[i].pc = "failed"
      /\ call[i].entry = "bytes"
      /\ fixture[i].corrupt = "title"
      /\ ~Versioned(fixture[i].wire.hdr)
      /\ Len(fixture[i].wire.author) > 0
      /\ fixture[i].cut = 7 + Len(fixture[i].wire.title) + 2
      /\ call[i].ret.err.kind = "ParseUtf8"

\* The stage whose read failed.
FailedStage(d) == d.log[Len(d.log)].stage

(***************************************************************************)
(* C9. As claimed: the error of a failed decode identifies the field that  *)
(* was being read, so a decode that fails in another field (here: of a     *)
(* shorter prefix of the same input) returns a different error.            *)
(***************************************************************************)
C9_ErrorIdentifiesField ==
    \A i \in DOMAIN call :
      call[i].pc = "failed" /\ call[i].cursor =>
        \A k \in 0..Len(call[i].input) :
          LET other == decode_track(SubSeq(call[i].input, 1, k))
          IN  other.pc = "failed" /\ FailedStage(other) # FailedStage(call[i])
                => other.ret # call[i].ret

(***************************************************************************)
(* C9, amended. The error of a failed decode tells the kind of failure and *)
(* not the field: it is Io(UnexpectedEof) when the bytes the read needs    *)
(* are not in the buffer, whatever the field, and else ParseUtf8 with the  *)
(* rejected bytes; the same input cut short in any earlier field returns   *)
(* an error equal to the Io(UnexpectedEof) of any other field.             *)
(***************************************************************************)
C9_ErrorTellsKindOnly ==
    \A i \in DOMAIN call :
      call[i].pc = "failed" /\ call[i].cursor =>
        LET d == call[i]
            e == d.log[Len(d.log)]
        IN  /\ d.ret = Err(ErrorOf(d, e))
            /\ d.ret.err.kind \in {"Io", "ParseUtf8"}
            /\ DOMAIN d.ret.err \subseteq {"kind", "io", "bytes"}
            /\ \A k \in 0..Len(d.input) :
                 LET other == decode_track(SubSeq(d.input, 1, k))
                 IN  /\ other.pc = "failed"
                     /\ d.ret.err.kind = "Io"
                     /\ other.ret.err.kind = "Io"
                     => other.ret = d.ret

C9_Witness ==
    \E i \in DOMAIN call :
      /\ call[i].pc = "failed"
      /\ call[i].cursor
      /\ Len(call[i].input) >= 6
      /\ FailedStage(call[i]) = "source"
      /\ call[i].ret = Err(ErrIo)
      /\ decode_track(SubSeq(call[i].input, 1, 6)).ret = Err(ErrIo)
      /\ FailedStage(decode_track(SubSeq(call[i].input, 1, 6))) = "title"

(***************************************************************************)
(* C10. decode_track_base64 on a text that is not base64 returns           *)
(* Err(Base64Error) without a binary read: no cursor is made, no cursor    *)
(* operation runs, and the error is neither Io nor ParseUtf8.              *)
(***************************************************************************)
C10_InvalidBase64FailsBeforeParsing ==
    \A i \in DOMAIN call :
      call[i].entry = "base64" /\ fixture[i].damage # "none" =>
        /\ ~call[i].cursor
        /\ call[i].log = <<>>
        /\ call[i].input = <<>>
        /\ call[i].pc \in {"base64", "failed"}
        /\ call[i].pc = "failed" => call[i].ret = Err(ErrBase64)

C10_Witness ==
    \E i \in DOMAIN call :
      /\ call[i].entry = "base64"
      /\ fixture[i].damage = "symbol"
      /\ Len(call[i].text) > 4
      /\ call[i].pc = "failed"
      /\ call[i].ret = Err(ErrBase64)

(***************************************************************************)
(* C11. decode_track_base64 on the base64 encoding of a byte sequence      *)
(* returns what decode_track returns on the byte sequence: the same record *)
(* or the same error.                                                      *)
(***************************************************************************)
C11_Base64EntryAgreesWithBytes ==
    \A i \in DOMAIN call :
      /\ /\ Terminal(call[i])
         /\ call[i].entry = "base64"
         /\ fixture[i].damage = "none"
         => /\ call[i].input = fixture[i].bytes
            /\ call[i].ret = decode_track(fixture[i].bytes).ret
      /\ /\ Terminal(call[i])
         /\ call[i].entry = "bytes"
         => decode_track_base64(Base64Encode(call[i].input)).ret = call[i].ret

C11_Witness ==
    \E i \in DOMAIN call :
      /\ call[i].pc = "done"
      /\ call[i].entry = "base64"
      /\ fixture[i].damage = "none"
      /\ Len(fixture[i].bytes) % 3 = 1
      /\ call[i].ret = decode_track(fixture[i].bytes).ret

\* The cursor operations that move the position without reading.
Skips == {"skip_header", "skip_reserved", "skip_padding"}

\* The distance a skip moves the position: 2, or the skip-length byte read
\* just before it.
SkipBy(d, k) ==
    IF d.log[k].stage = "skip_padding" THEN d.input[d.log[k].from] ELSE 2

(***************************************************************************)
(* C12. A skip (of the 2 + 2 header bytes, or of the padding when there is *)
(* no URL) moves the position on by its whole distance, past the end of    *)
(* the buffer when the buffer is shorter, without clamping it to the       *)
(* length; and a decode in which a skip went past the end never returns a  *)
(* record: the position stays past the end until the next read, which      *)
(* fails, and the decode returns Err(Io(UnexpectedEof)).                   *)
(***************************************************************************)
C12_SkipPastEndIsError ==
    \A i \in DOMAIN call :
      LET d == call[i]
      IN  \A k \in 1..Len(d.log) :
            d.log[k].stage \in Skips =>
              /\ d.log[k].ok
              /\ d.log[k].to = d.log[k].from + SkipBy(d, k)
              /\ d.log[k].to > Len(d.input) =>
                   /\ d.pos > Len(d.input)
                   /\ d.pc # "done"
                   /\ d.ret.kind # "Ok"
                   /\ d.pc = "failed" => d.ret = Err(ErrIo)
                   /\ \A m \in (k + 1)..Len(d.log) :
                        d.log[m].stage \in Skips \/ ~d.log[m].ok

C12_Witness ==
    \E i \in DOMAIN call :
      /\ call[i].pc = "failed"
      /\ call[i].ret = Err(ErrIo)
      /\ \E k \in 1..Len(call[i].log) :
           /\ call[i].log[k].stage = "skip_padding"
           /\ call[i].log[k].to > Len(call[i].input)
      /\ call[i].log[Len(call[i].log)].stage = "source"

\* The values of a byte.
Bytes == 0..255

(***************************************************************************)
(* C13. The stream flag of the record is true exactly when the stream byte *)
(* is 1: a buffer that decodes, with its stream byte replaced by any of    *)
(* the 256 values, decodes again to the same record but for stream, which  *)
(* is true for 1 and false for each of the other 255 values.               *)
(***************************************************************************)
C13_StreamIffByteIsOne ==
    \A i \in DOMAIN call :
      call[i].pc = "done" =>
        LET d == call[i]
            at == Entry(d, "stream").from
        IN  /\ d.ret.track.stream = (ByteRead(d, "stream") = 1)
            /\ d.entry = "bytes" =>
                 \A v \in Bytes :
                   decode_track(Overwrite(d.input, at, <<v>>)).ret
                     = Ok([d.ret.track EXCEPT !.stream = (v = 1)])

C13_Witness ==
    \E i \in DOMAIN call :
      /\ call[i].pc = "done"
      /\ call[i].entry = "bytes"
      /\ ByteRead(call[i], "stream") = 2
      /\ ~call[i].ret.track.stream
      /\ decode_track(Overwrite(call[i].input, Entry(call[i], "stream").from,
                                <<255>>)).ret
           = Ok(call[i].ret.track)

(***************************************************************************)
(* Several invocations at once. Each thread calls decode_track or          *)
(* decode_track_base64 on a buffer of its own; the steps of the threads    *)
(* interleave in every order.                                              *)
(***************************************************************************)

\* The number of threads.
MaxThreads == 2

\* A wire with a URL: title "A", URL "A", source "A", stream 1.
UrlWire == Wire(0, <<65>>, <<>>, U64(0), <<>>, 1, 1, <<65>>, 0, <<65>>)

\* An input as a caller gives it: the wire, the field replaced by 0xFF bytes,
\* the number of bytes kept, and the entry point.
Given(w, corrupt, cut, entry) ==
    LET sent == Replaced(w, corrupt,
                         IF corrupt = "none" THEN <<>>
                         ELSE [i \in 1..Len(w[corrupt]) |-> 255])
        bytes == SubSeq(Build(sent), 1, cut)
    IN  [fix |-> [wire |-> w, corrupt |-> corrupt, cut |-> cut,
                  full |-> Len(Build(sent)), bytes |-> bytes, damage |-> "none"],
         call |-> IF entry = "bytes"
                  THEN NewCall("bytes", <<>>, bytes)
                  ELSE NewCall("base64", Base64Encode(bytes), <<>>)]

\* The inputs of the threads: the example (no URL), a wire with a URL given
\* as base64 text, the same cut inside its URL, and the example with a title
\* that is not UTF-8.
Samples ==
    {Given(ExampleWire, "none", Len(Build(ExampleWire)), "bytes"),
     Given(UrlWire, "none", Len(Build(UrlWire)), "base64"),
     Given(UrlWire, "none", Len(Build(UrlWire)) - 4, "bytes"),
     Given(ExampleWire, "title", Len(Build(ExampleWire)), "bytes")}

InitConcurrent ==
    \E given \in [1..MaxThreads -> Samples] :
      /\ call = [i \in 1..MaxThreads |-> given[i].call]
      /\ fixture = [i \in 1..MaxThreads |-> given[i].fix]
      /\ players = AudioPlayerManager_new

SpecConcurrent == InitConcurrent /\ [][Next]_vars

\* The invocation i as it was called.
Called(i) ==
    IF call[i].entry = "bytes"
    THEN NewCall("bytes", <<>>, fixture[i].bytes)
    ELSE NewCall("base64", call[i].text, <<>>)

(***************************************************************************)
(* C14. Invocations running at once on buffers of their own do not         *)
(* interfere: in every interleaving of their steps, each invocation that   *)
(* has returned has returned what it returns when run alone, after the     *)
(* same cursor operations on the same input.                               *)
(***************************************************************************)
C14_ConcurrentInvocationsDoNotInterfere ==
    \A i \in DOMAIN call :
      Terminal(call[i]) => call[i] = Run(Called(i))

C14_Witness ==
    \E i, j \in DOMAIN call :
      /\ i # j
      /\ call[i].pc = "done"
      /\ call[j].pc \in {"title", "author"}
      /\ call[i].input # call[j].input
      /\ call[i].ret = Run(Called(i)).ret

(***************************************************************************)
(* Decodes one after another: a caller makes a call, waits for its return, *)
(* and makes the next one, on any input.                                   *)
(***************************************************************************)

\* The number of calls made one after another.
MaxCalls == 3

InitSequential ==
    \E given \in Samples :
      /\ call = <<given.call>>
      /\ fixture = <<given.fix>>
      /\ players = AudioPlayerManager_new

\* A call of decode_track or decode_track_base64 after the calls before it
\* have returned.
Invoke ==
    /\ Len(call) < MaxCalls
    /\ \A i \in DOMAIN call : Terminal(call[i])
    /\ \E given \in Samples :
         /\ call' = Append(call, given.call)
         /\ fixture' = Append(fixture, given.fix)
         /\ UNCHANGED players

NextSequential == Next \/ Invoke

SpecSequential == InitSequential /\ [][NextSequential]_vars

(***************************************************************************)
(* C15. decode_track is a function of its input bytes alone: two decodes   *)
(* of the same byte sequence return equal results (equal records, or equal *)
(* errors) after the same cursor operations, whatever was decoded before   *)
(* or between them.                                                        *)
(***************************************************************************)
C15_SameBytesSameResult ==
    \A i, j \in DOMAIN call :
      /\ Terminal(call[i]) /\ call[i].cursor
      /\ Terminal(call[j]) /\ call[j].cursor
      /\ call[i].input = call[j].input
      => /\ call[i].ret = call[j].ret
         /\ call[i].log = call[j].log
         /\ call[i].ret = decode_track(call[i].input).ret

C15_Witness ==
    /\ Len(call) = 3
    /\ \A i \in DOMAIN call : Terminal(call[i])
    /\ call[1].input = call[3].input
    /\ call[2].input # call[1].input
    /\ call[2].pc = "failed"
    /\ call[1].pc = "done"
    /\ call[3].ret = call[1].ret

\* The offsets the two skips pass over, as far as the buffer has them.
SkippedOffsets(d) ==
    {o \in 0..(Len(d.input) - 1) :
       \E k \in 1..Len(d.log) :
         /\ d.log[k].stage \in {"skip_header", "skip_reserved"}
         /\ d.log[k].from <= o /\ o < d.log[k].to}

\* Values to put in a skipped byte.
Fillers == {0, 64, 128, 255}

\* The buffers that differ from buf only at skipped offsets: one offset, or
\* all of them, set to a filler.
SkippedVariants(buf, offsets) ==
    {[k \in 1..Len(buf) |-> IF k - 1 \in at THEN x ELSE buf[k]] :
       at \in {{o} : o \in offsets} \cup {offsets}, x \in Fillers}

(***************************************************************************)
(* C16. The bytes the decoder skips after the header byte (offsets 1-2 and *)
(* the 2 bytes skipped next) are not data: a buffer of the same length     *)
(* that differs only in those bytes decodes to the same outcome, by the    *)
(* same cursor operations.                                                 *)
(***************************************************************************)
C16_SkippedBytesAreNotData ==
    \A i \in DOMAIN call :
      Terminal(call[i]) /\ call[i].entry = "bytes" =>
        /\ SkippedOffsets(call[i]) \subseteq 1..4
        /\ Len(call[i].input) >= 5 => SkippedOffsets(call[i]) = 1..4
        /\ \A other \in SkippedVariants(call[i].input, SkippedOffsets(call[i])) :
             LET o == decode_track(other)
             IN  o.ret = call[i].ret /\ o.log = call[i].log

C16_Witness ==
    \E i \in DOMAIN call :
      /\ call[i].pc = "done"
      /\ call[i].entry = "bytes"
      /\ SkippedOffsets(call[i]) = 1..4
      /\ \E other \in SkippedVariants(call[i].input, SkippedOffsets(call[i])) :
           /\ other # call[i].input
           /\ other[4] = 255
           /\ decode_track(other).ret = call[i].ret

(***************************************************************************)
(* read_string alone: a call of read_string on a cursor at some position   *)
(* of a buffer that holds, from there, a length prefix and some bytes.     *)
(***************************************************************************)

\* The lengths a prefix announces: around 0, around 256 where the high byte
\* of the prefix starts to count, and the largest a prefix can hold.
Lengths == {0, 1, 2, 255, 256, 257, 65535}

\* How many bytes follow a prefix that announces n: none, one too few, just
\* n, or one more; never more than a few hundred.
Supplies(n) == {k \in {0, n - 1, n, n + 1} : k >= 0 /\ k <= 258}

\* k bytes of text: all "A", with U+00E9 as its last two bytes, or with a
\* last byte that is not UTF-8.
Texts(k) ==
    {[p \in 1..k |-> 65]}
      \cup (IF k >= 2
            THEN {[p \in 1..k |-> IF p = k - 1 THEN 195 ELSE IF p = k THEN 169 ELSE 65]}
            ELSE {})
      \cup (IF k >= 1 THEN {[p \in 1..k |-> IF p = k THEN 255 ELSE 65]} ELSE {})

\* The positions of the cursor before the call.
Offsets == 0..6

\* A cursor at position at of a buffer whose bytes from at on are the prefix
\* of n and then the text.
StringCall(at, n, text) ==
    [pc |-> "read_string",
     input |-> [p \in 1..at |-> 170] \o <<n \div 256, n % 256>> \o text,
     pos |-> at, ret |-> read_string(<<>>, 0), log |-> <<>>]

InitStrings ==
    \E at \in Offsets, n \in Lengths :
      \E k \in Supplies(n) :
        \E text \in Texts(k) :
          /\ call = <<StringCall(at, n, text)>>
          /\ fixture = <<[at |-> at, announced |-> n, text |-> text]>>
          /\ players = AudioPlayerManager_new

\* read_string(&mut cursor): the result and the new position of the cursor.
ReadString ==
    \E i \in DOMAIN call :
      /\ call[i].pc = "read_string"
      /\ LET r == read_string(call[i].input, call[i].pos)
         IN  call' = [call EXCEPT ![i] =
                        [@ EXCEPT !.pc = "returned", !.ret = r, !.pos = r.pos,
                                  !.log = <<[stage |-> "read_string", ok |-> r.ok,
                                             from |-> call[i].pos, to |-> r.pos]>>]]
      /\ UNCHANGED <<fixture, players>>

NextStrings == ReadString

SpecStrings == InitStrings /\ [][NextStrings]_vars

\* A wire whose strings are all empty, with a URL.
EmptyStringsWire == Wire(0, <<>>, <<>>, U64(0), <<>>, 0, 1, <<>>, 0, <<>>)

(***************************************************************************)
(* C17. read_string reads a 16-bit big-endian length L = 256*b0 + b1 and   *)
(* then exactly L bytes: when the buffer holds them and they are UTF-8 it  *)
(* returns those L bytes and leaves the cursor 2 + L further; when it      *)
(* holds fewer it returns Io(UnexpectedEof). So a string has at most 65535 *)
(* bytes, and a length of 0 gives the empty string, which is a string and  *)
(* not an absent one: a buffer whose strings are all empty decodes to      *)
(* empty title, author, identifier and source and to the URL Some("").     *)
(***************************************************************************)
C17_StringIsLengthPrefixed ==
    \A i \in DOMAIN call :
      call[i].pc = "returned" =>
        LET d == call[i]
            at == d.log[1].from
            L == 256 * d.input[at + 1] + d.input[at + 2]
            payload == SubSeq(d.input, at + 3, at + 2 + L)
        IN  /\ L = fixture[i].announced
            /\ L <= 65535
            /\ at + 2 + L > Len(d.input) => ~d.ret.ok /\ d.ret.err = ErrIo
            /\ at + 2 + L <= Len(d.input) =>
                 /\ d.ret.ok <=> Utf8Valid(payload)
                 /\ ~d.ret.ok => d.ret.err = ErrParseUtf8(payload)
            /\ d.ret.ok =>
                 /\ d.ret.val = payload
                 /\ Len(d.ret.val) = L
                 /\ d.pos = at + 2 + L
                 /\ d.log[1].to - d.log[1].from = 2 + L
            /\ L = 0 => d.ret.ok /\ d.ret.val = <<>>
            /\ decode_track(Build(EmptyStringsWire)).ret
                 = Ok([version |-> 1, title |-> <<>>, author |-> <<>>,
                       length |-> <<0, 0, 0, 0>>, identifier |-> <<>>,
                       stream |-> FALSE, url |-> Some(<<>>), source |-> <<>>])

C17_Witness ==
    \E i \in DOMAIN call :
      /\ call[i].pc = "returned"
      /\ call[i].ret.ok
      /\ Len(call[i].ret.val) = 257
      /\ call[i].input[call[i].log[1].from + 1] = 1
      /\ call[i].pos = call[i].log[1].from + 259

(***************************************************************************)
(* A program that owns an AudioPlayerManager and calls it: call is the     *)
(* history of its calls, each with what it returned.                       *)
(***************************************************************************)

\* The number of calls made on the manager.
MaxOps == 3

GuildIds == {1, 2}
Senders == {"sender1", "sender2"}
Listeners == {"listener"}

InitPlayers ==
    /\ call = <<>>
    /\ fixture = <<>>
    /\ players = AudioPlayerManager_new

\* The allocation a new Arc gets: one that no Arc made so far has.
NextArc ==
    Cardinality({k \in DOMAIN call :
                   call[k].op = "create_player" /\ call[k].ret.kind = "Ok"}) + 1

\* manager.create_player(sender, guild_id)
CreatePlayer ==
    \E sender \in Senders, guild_id \in GuildIds :
      LET r == create_player(players, sender, guild_id, NextArc)
      IN  /\ Len(call) < MaxOps
          /\ players' = r.players
          /\ call' = Append(call, [op |-> "create_player", sender |-> sender,
                                   guild_id |-> guild_id, ret |-> r.ret])
          /\ UNCHANGED fixture

\* manager.has_player(&guild_id)
HasPlayer ==
    \E guild_id \in GuildIds :
      /\ Len(call) < MaxOps
      /\ call' = Append(call, [op |-> "has_player", guild_id |-> guild_id,
                               ret |-> has_player(players, guild_id)])
      /\ UNCHANGED <<fixture, players>>

\* manager.get_player(&guild_id)
GetPlayer ==
    \E guild_id \in GuildIds :
      /\ Len(call) < MaxOps
      /\ call' = Append(call, [op |-> "get_player", guild_id |-> guild_id,
                               ret |-> get_player(players, guild_id)])
      /\ UNCHANGED <<fixture, players>>

\* player.lock().add_listener(listener), on the Arc that get_player gave.
AddListener ==
    \E guild_id \in GuildIds, listener \in Listeners :
      /\ Len(call) < MaxOps
      /\ get_player(players, guild_id) # None
      /\ players' = [players EXCEPT ![guild_id] = add_listener(@, listener)]
      /\ call' = Append(call, [op |-> "add_listener", guild_id |-> guild_id,
                               ret |-> Some(players[guild_id].arc)])
      /\ UNCHANGED fixture

NextPlayers == CreatePlayer \/ HasPlayer \/ GetPlayer \/ AddListener

SpecPlayers == InitPlayers /\ [][NextPlayers]_vars

\* The calls of create_player for a guild id, in the history.
Creates(guild_id) ==
    {k \in DOMAIN call :
       call[k].op = "create_player" /\ call[k].guild_id = guild_id}

\* The first of them.
FirstCreate(guild_id) ==
    CHOOSE k \in Creates(guild_id) : \A m \in Creates(guild_id) : k <= m

\* After any calls: a guild id has a player exactly when create_player was
\* called for it, the player is the one the first such call made and
\* returned, and every later such call returned PlayerAlreadyExists.
C18_OnePlayerTheFirst ==
    /\ DOMAIN players \subseteq GuildIds
    /\ \A g \in GuildIds :
         /\ g \in DOMAIN players <=> Creates(g) # {}
         /\ Creates(g) # {} =>
              LET first == FirstCreate(g)
              IN  /\ call[first].ret = Ok(players[g].arc)
                  /\ players[g].player.sender = call[first].sender
                  /\ players[g].player.guild_id = g
                  /\ \A k \in Creates(g) \ {first} :
                       call[k].ret = Err(ErrPlayerAlreadyExists)
    /\ \A g, h \in DOMAIN players : players[g].arc = players[h].arc => g = h

\* A call of create_player for a guild id that has a player returns
\* PlayerAlreadyExists and changes neither the map nor the player.
C18_RejectedLeavesAll ==
    /\ call' # call
    /\ call'[Len(call')].op = "create_player"
    /\ call'[Len(call')].guild_id \in DOMAIN players
    => /\ call'[Len(call')].ret = Err(ErrPlayerAlreadyExists)
       /\ players' = players

(***************************************************************************)
(* C18. create_player for a guild id that has a player returns             *)
(* Err(PlayerAlreadyExists) and leaves the map and the player it holds as  *)
(* they were; so after any calls there is at most one player for a guild   *)
(* id, and it is the one created first.                                    *)
(***************************************************************************)
C18_CreatePlayerRejectsSecond ==
    []C18_OnePlayerTheFirst /\ [][C18_RejectedLeavesAll]_vars

C18_Witness ==
    /\ Len(call) = 3
    /\ call[1].op = "create_player" /\ call[1].sender = "sender1"
    /\ call[2].op = "add_listener" /\ call[2].guild_id = call[1].guild_id
    /\ call[3].op = "create_player" /\ call[3].sender = "sender2"
    /\ call[3].guild_id = call[1].guild_id
    /\ call[3].ret = Err(ErrPlayerAlreadyExists)
    /\ players[call[1].guild_id].player.sender = "sender1"
    /\ players[call[1].guild_id].player.listeners = <<"listener">>

(***************************************************************************)
(* Band::new (src/src/model.rs). An f64 is its class, "nan", "inf" or      *)
(* "finite", and a number: for a finite value the value in units of 2^-10  *)
(* (so -0.25 is -256 and 1.0 is 1024, both exact in an f64), for an        *)
(* infinity its sign.                                                      *)
(***************************************************************************)

Finite(units) == [class |-> "finite", units |-> units]
Infinity(sign) == [class |-> "inf", units |-> sign]
NaN == [class |-> "nan", units |-> 0]

\* The operator < of f64: false when either side is NaN.
f64_lt(a, b) ==
    IF a.class = "nan" \/ b.class = "nan" THEN FALSE
    ELSE IF a.class = "inf"
    THEN a.units < 0 /\ ~(b.class = "inf" /\ b.units < 0)
    ELSE IF b.class = "inf" THEN b.units > 0
    ELSE a.units < b.units

\* The operator > of f64.
f64_gt(a, b) == f64_lt(b, a)

\* BandError::BandInvalid, BandError::GainInvalid
BandInvalid == [kind |-> "BandInvalid"]
GainInvalid == [kind |-> "GainInvalid"]

\* Mutant of Band_new: the two limits of the gain compared with <= and >=.
Band_new_exclusive(band, gain) ==
    IF band > 14 THEN Err(BandInvalid)
    ELSE IF ~f64_gt(gain, Finite(-256)) \/ ~f64_lt(gain, Finite(1024))
    THEN Err(GainInvalid)
    ELSE Ok([band |-> band, gain |-> gain, nonexhaustive |-> <<>>])

\* Band::new(band, gain)
Band_new(band, gain) ==
    IF band > 14 THEN Err(BandInvalid)
    ELSE IF f64_lt(gain, Finite(-256)) \/ f64_gt(gain, Finite(1024))
    THEN Err(GainInvalid)
    ELSE Ok([band |-> band, gain |-> gain, nonexhaustive |-> <<>>])

\* The gains tried: the two limits and their neighbours, values between and
\* far outside, the infinities and NaN.
Gains ==
    {Finite(u) : u \in {-1048576, -257, -256, -255, 0, 256, 1023, 1024, 1025,
                       1048576}}
      \cup {Infinity(-1), Infinity(1), NaN}

InitBand ==
    \E band \in Bytes, gain \in Gains :
      /\ call = <<[op |-> "Band::new", band |-> band, gain |-> gain,
                   pc |-> "called", ret |-> Pending]>>
      /\ fixture = <<[band |-> band, gain |-> gain]>>
      /\ players = AudioPlayerManager_new

\* Band::new(band, gain)
BandNew ==
    \E i \in DOMAIN call :
      /\ call[i].pc = "called"
      /\ call' = [call EXCEPT ![i] =
                    [@ EXCEPT !.pc = "returned",
                              !.ret = Band_new(call[i].band, call[i].gain)]]
      /\ UNCHANGED <<fixture, players>>

NextBand == BandNew

SpecBand == InitBand /\ [][NextBand]_vars

\* The gain is a number below -0.25.
BelowRange(gain) ==
    \/ gain.class = "finite" /\ gain.units < -256
    \/ gain.class = "inf" /\ gain.units = -1

\* The gain is a number above 1.0.
AboveRange(gain) ==
    \/ gain.class = "finite" /\ gain.units > 1024
    \/ gain.class = "inf" /\ gain.units = 1

JsonNumber(u64) == [json |-> "number", u64 |-> u64]
JsonString(s) == [json |-> "string", s |-> s]
JsonBool(b) == [json |-> "bool", b |-> b]
JsonNull == [json |-> "null"]

\* Opcode::Play, and the name its derived Serialize gives it under
\* rename_all = "camelCase".
Opcode_Play == "Play"
Opcode_serialize(op) ==
    JsonString(CASE op = "Connect" -> "connect"
                 [] op = "Disconnect" -> "disconnect"
                 [] op = "Event" -> "event"
                 [] op = "IsConnectedReq" -> "isConnectedReq"
                 [] op = "IsConnectedRes" -> "isConnectedRes"
                 [] op = "Pause" -> "pause"
                 [] op = "Play" -> "play"
                 [] op = "PlayerUpdate" -> "playerUpdate"
                 [] op = "Seek" -> "seek"
                 [] op = "SendWS" -> "sendWS"
                 [] op = "Stats" -> "stats"
                 [] op = "Stop" -> "stop"
                 [] op = "Unknown" -> "unknown"
                 [] op = "ValidationReq" -> "validationReq"
                 [] op = "ValidationRes" -> "validationRes"
                 [] op = "VoiceUpdate" -> "voiceUpdate"
                 [] op = "Volume" -> "volume")

\* Play::new(guild_id, track, start_time, end_time)
Play_new(guild_id, track, start_time, end_time) ==
    [no_replace |-> FALSE, op |-> Opcode_Play, end_time |-> end_time,
     guild_id |-> guild_id, start_time |-> start_time, track |-> track]

\* Play::with_no_replace(guild_id, track, start_time, end_time, no_replace)
Play_with_no_replace(guild_id, track, start_time, end_time, no_replace) ==
    [op |-> Opcode_Play, end_time |-> end_time, guild_id |-> guild_id,
     no_replace |-> no_replace, start_time |-> start_time, track |-> track]

\* Mutant of serialize_option_u64: what Option<u64> does without
\* serialize_with, None as null.
serialize_option_plain(option) ==
    IF option = None THEN JsonNull ELSE JsonNumber(option[1])

\* serialize_option_u64(option, s): s.serialize_u64 of the value, or of 0.
serialize_option_u64(option) ==
    LET value == IF option = None THEN U64(0) ELSE option[1]
    IN  JsonNumber(value)

\* The derived Serialize of Play: the fields in the order of the struct,
\* with their camelCase names.
Play_serialize(play) ==
    <<[key |-> "endTime", value |-> serialize_option_u64(play.end_time)],
      [key |-> "guildId", value |-> JsonString(play.guild_id)],
      [key |-> "noReplace", value |-> JsonBool(play.no_replace)],
      [key |-> "op", value |-> Opcode_serialize(play.op)],
      [key |-> "startTime", value |-> serialize_option_u64(play.start_time)],
      [key |-> "track", value |-> JsonString(play.track)]>>

\* The times tried: none, 0, 1, 180000 and 2^64 - 1.
Times ==
    {None, Some(U64(0)), Some(U64(1)), Some(U64(180000)),
     Some(<<65535, 65535, 65535, 65535>>)}

\* A caller about to build a Play message with one of its constructors.
InitPlay ==
    \E start_time \in Times, end_time \in Times,
       how \in {"new", "with_no_replace"}, no_replace \in BOOLEAN :
      /\ how = "new" => ~no_replace
      /\ call = <<[op |-> how, pc |-> "called", msg |-> <<>>, out |-> <<>>]>>
      /\ fixture = <<[guild_id |-> "381880193251409931", track |-> "info here",
                      start_time |-> start_time, end_time |-> end_time,
                      no_replace |-> no_replace]>>
      /\ players = AudioPlayerManager_new

\* Play::new
PlayNew ==
    \E i \in DOMAIN call :
      /\ call[i].pc = "called" /\ call[i].op = "new"
      /\ call' = [call EXCEPT ![i] =
                    [@ EXCEPT !.pc = "built",
                              !.msg = <<Play_new(fixture[i].guild_id,
                                                 fixture[i].track,
                                                 fixture[i].start_time,
                                                 fixture[i].end_time)>>]]
      /\ UNCHANGED <<fixture, players>>

\* Play::with_no_replace
PlayWithNoReplace ==
    \E i \in DOMAIN call :
      /\ call[i].pc = "called" /\ call[i].op = "with_no_replace"
      /\ call' = [call EXCEPT ![i] =
                    [@ EXCEPT !.pc = "built",
                              !.msg = <<Play_with_no_replace(
                                          fixture[i].guild_id, fixture[i].track,
                                          fixture[i].start_time,
                                          fixture[i].end_time,
                                          fixture[i].no_replace)>>]]
      /\ UNCHANGED <<fixture, players>>

\* <Play as Serialize>::serialize
SerializePlay ==
    \E i \in DOMAIN call :
      /\ call[i].pc = "built"
      /\ call' = [call EXCEPT ![i] =
                    [@ EXCEPT !.pc = "serialized",
                              !.out = Play_serialize(call[i].msg[1])]]
      /\ UNCHANGED <<fixture, players>>

NextPlay == PlayNew \/ PlayWithNoReplace \/ SerializePlay

SpecPlay == InitPlay /\ [][NextPlay]_vars

\* The value of a field of a serialized struct.
Field(out, key) == out[CHOOSE k \in DOMAIN out : out[k].key = key].value

\* The time a Play message is expected to carry for an option.
TimeOrZero(option) == IF option = None THEN <<0, 0, 0, 0>> ELSE option[1]

(***************************************************************************)
(* C20. A Play message serializes a start_time or end_time that is None as *)
(* the number 0, not as null, and one that is Some(v) as the number v, so  *)
(* a message with None and the same message with Some(0) serialize to the  *)
(* same fields; and a message built by Play::new has no_replace false.     *)
(***************************************************************************)
C20_AbsentTimeSerializesAsZero ==
    \A i \in DOMAIN call :
      /\ call[i].pc \in {"built", "serialized"} /\ call[i].op = "new"
           => call[i].msg[1].no_replace = FALSE
      /\ call[i].pc = "serialized" =>
           LET f == fixture[i]
               out == call[i].out
               play == call[i].msg[1]
           IN  /\ [k \in DOMAIN out |-> out[k].key]
                    = <<"endTime", "guildId", "noReplace", "op", "startTime",
                        "track">>
               /\ Field(out, "startTime") = JsonNumber(TimeOrZero(f.start_time))
               /\ Field(out, "endTime") = JsonNumber(TimeOrZero(f.end_time))
               /\ Field(out, "startTime") # JsonNull
               /\ Field(out, "endTime") # JsonNull
               /\ call[i].op = "new" => Field(out, "noReplace") = JsonBool(FALSE)
               /\ f.start_time = None =>
                    Play_serialize([play EXCEPT !.start_time = Some(U64(0))]) = out
               /\ f.end_time = None =>
                    Play_serialize([play EXCEPT !.end_time = Some(U64(0))]) = out

C20_Witness ==
    \E i \in DOMAIN call :
      /\ call[i].pc = "serialized"
      /\ call[i].op = "new"
      /\ fixture[i].start_time = None
      /\ fixture[i].end_time = Some(U64(180000))
      /\ Field(call[i].out, "startTime") = JsonNumber(U64(0))
      /\ Field(call[i].out, "endTime") = JsonNumber(U64(180000))

(***************************************************************************)
(* The JSON messages of a node (model.rs).  A text is its layout and the   *)
(* value it spells: an object is the sequence of its members in the order  *)
(* of the text, a number keeps the form it is written in.  serde_json      *)
(* reads any layout and any member order; to_string_pretty writes the      *)
(* pretty layout, the members in the order the serializer is handed them.  *)
(***************************************************************************)

\* An integer literal: an optional minus sign and a magnitude (four 16-bit
\* words, most significant first).
JsonInteger(neg, mag) ==
    [json |-> "number", form |-> "integer", neg |-> neg, mag |-> mag]

\* A literal with a fraction: "shortest" is the text serde_json writes for
\* the f64 (3000.0), "padded" any longer spelling of the same f64 (3000.00).
JsonFloat(form, f) == [json |-> "number", form |-> form, f |-> f]

JsonObject(members) == [json |-> "object", members |-> members]

JsonText(layout, value) == [layout |-> layout, value |-> value]

\* A small non-negative integer as an integer value of the program.
IntOf(n) == [neg |-> FALSE, mag |-> U64(n)]

\* The outcome of a deserializer: a value, or serde_json's error.
De_Ok(val) == [ok |-> TRUE, val |-> val]
De_Err == [ok |-> FALSE, val |-> "Error::Json"]

\* The names of the members of an object, and the member of a name.
Keys(obj) == {obj.members[k].key : k \in DOMAIN obj.members}
Member(obj, key) ==
    obj.members[CHOOSE k \in DOMAIN obj.members : obj.members[k].key = key]
      .value

\* Deserialize for String, bool and the integer types: the literal has to be
\* of the right kind, and an integer inside the range of the type.
String_deserialize(tok) ==
    IF tok.json = "string" THEN De_Ok(tok.s) ELSE De_Err

bool_deserialize(tok) ==
    IF tok.json = "bool" THEN De_Ok(tok.b) ELSE De_Err

IsIntegerLiteral(tok) == tok.json = "number" /\ tok.form = "integer"

u64_deserialize(tok) ==
    IF IsIntegerLiteral(tok) /\ ~tok.neg
    THEN De_Ok([neg |-> FALSE, mag |-> tok.mag]) ELSE De_Err

u16_deserialize(tok) ==
    IF /\ IsIntegerLiteral(tok) /\ ~tok.neg
       /\ tok.mag[1] = 0 /\ tok.mag[2] = 0 /\ tok.mag[3] = 0
    THEN De_Ok([neg |-> FALSE, mag |-> tok.mag]) ELSE De_Err

i64_deserialize(tok) ==
    IF /\ IsIntegerLiteral(tok)
       /\ \/ tok.mag[1] < 32768
          \/ tok.neg /\ tok.mag = <<32768, 0, 0, 0>>
    THEN De_Ok([neg |-> tok.neg, mag |-> tok.mag]) ELSE De_Err

i32_deserialize(tok) ==
    IF /\ IsIntegerLiteral(tok)
       /\ tok.mag[1] = 0 /\ tok.mag[2] = 0
       /\ \/ tok.mag[3] < 32768
          \/ tok.neg /\ tok.mag = <<0, 0, 32768, 0>>
    THEN De_Ok([neg |-> tok.neg, mag |-> tok.mag]) ELSE De_Err

\* Deserialize for f64: a literal with a fraction gives its f64, an integer
\* literal is converted (exactly, for the magnitudes below 2^21 that the
\* units of 2^-10 can hold).
f64_deserialize(tok) ==
    IF tok.json # "number" THEN De_Err
    ELSE IF tok.form # "integer" THEN De_Ok(tok.f)
    ELSE IF tok.mag[1] = 0 /\ tok.mag[2] = 0 /\ tok.mag[3] < 32
    THEN De_Ok(Finite((IF tok.neg THEN -1 ELSE 1)
                        * (tok.mag[3] * 65536 + tok.mag[4]) * 1024))
    ELSE De_Err

\* The derived Deserialize of Opcode: the camelCase name of a variant.
Opcodes ==
    {"Connect", "Disconnect", "Event", "IsConnectedReq", "IsConnectedRes",
     "Pause", "Play", "PlayerUpdate", "Seek", "SendWS", "Stats", "Stop",
     "Unknown", "ValidationReq", "ValidationRes", "VoiceUpdate", "Volume"}

Opcode_deserialize(tok) ==
    IF \E op \in Opcodes : Opcode_serialize(op) = tok
    THEN De_Ok(CHOOSE op \in Opcodes : Opcode_serialize(op) = tok)
    ELSE De_Err

\* Serialize for the integer types and f64: the decimal digits, the
\* shortest text that reads back as the same f64 (null when not finite).
integer_serialize(n) == JsonInteger(n.neg, n.mag)

f64_serialize(f) ==
    IF f.class = "finite" THEN JsonFloat("shortest", f) ELSE JsonNull

\* A member of a struct as the derived Deserialize reads it: absent or of
\* the wrong kind is an error. An Option<T> member may be absent or null.
Required(obj, key, T_deserialize(_)) ==
    IF key \in Keys(obj) THEN T_deserialize(Member(obj, key)) ELSE De_Err

\* Some(value) of a member that was read, the error of one that was not.
Some_of(r) == IF r.ok THEN De_Ok(Some(r.val)) ELSE De_Err

Optional(obj, key, T_deserialize(_)) ==
    IF key \notin Keys(obj) \/ Member(obj, key) = JsonNull
    THEN De_Ok(None)
    ELSE Some_of(T_deserialize(Member(obj, key)))

\* The end of a derived Deserialize of a struct: the struct of the members
\* read, or the error when one of them could not be read.
Struct(members) ==
    IF \A name \in DOMAIN members : members[name].ok
    THEN De_Ok([name \in DOMAIN members |-> members[name].val])
    ELSE De_Err

\* Serialize for Option<T>: null, or the value.
Option_serialize(option, T_serialize(_)) ==
    IF option = None THEN JsonNull ELSE T_serialize(option[1])

\* A member of a serialized struct.
M(key, value) == [key |-> key, value |-> value]

\* PlayerUpdateState (no rename: position, time).
PlayerUpdateState_deserialize(tok) ==
    IF tok.json # "object" THEN De_Err
    ELSE Struct([position |-> Optional(tok, "position", i64_deserialize),
                 time |-> Required(tok, "time", u64_deserialize)])

PlayerUpdateState_serialize(state) ==
    JsonObject(<<M("position",
                   Option_serialize(state.position, integer_serialize)),
                 M("time", integer_serialize(state.time))>>)

\* PlayerUpdate: guild_id, op, state under their camelCase names.
PlayerUpdate_deserialize(tok) ==
    IF tok.json # "object" THEN De_Err
    ELSE Struct([guild_id |-> Required(tok, "guildId", String_deserialize),
                 op |-> Required(tok, "op", Opcode_deserialize),
                 state |-> Required(tok, "state",
                                    PlayerUpdateState_deserialize)])

PlayerUpdate_serialize(update) ==
    JsonObject(<<M("guildId", JsonString(update.guild_id)),
                 M("op", Opcode_serialize(update.op)),
                 M("state", PlayerUpdateState_serialize(update.state))>>)

\* StatsCpu: cores, systemLoad, lavalinkLoad.
StatsCpu_deserialize(tok) ==
    IF tok.json # "object" THEN De_Err
    ELSE Struct([cores |-> Required(tok, "cores", i64_deserialize),
                 system_load |-> Required(tok, "systemLoad", f64_deserialize),
                 lavalink_load |-> Required(tok, "lavalinkLoad", f64_deserialize)])

StatsCpu_serialize(cpu) ==
    JsonObject(<<M("cores", integer_serialize(cpu.cores)),
                 M("systemLoad", f64_serialize(cpu.system_load)),
                 M("lavalinkLoad", f64_serialize(cpu.lavalink_load))>>)

\* StatsFrames: its members are renamed sent, nulled, deficit.
StatsFrames_deserialize(tok) ==
    IF tok.json # "object" THEN De_Err
    ELSE Struct([average_sent_per_minute |-> Required(tok, "sent", f64_deserialize),
                 average_nulled_per_minute |-> Required(tok, "nulled", f64_deserialize),
                 average_deficit_per_minute |-> Required(tok, "deficit", f64_deserialize)])

StatsFrames_serialize(frames) ==
    JsonObject(<<M("sent", f64_serialize(frames.average_sent_per_minute)),
                 M("nulled", f64_serialize(frames.average_nulled_per_minute)),
                 M("deficit",
                   f64_serialize(frames.average_deficit_per_minute))>>)

\* StatsMemory: allocated, free, reservable, used.
StatsMemory_deserialize(tok) ==
    IF tok.json # "object" THEN De_Err
    ELSE Struct([allocated |-> Required(tok, "allocated", i64_deserialize),
                 free |-> Required(tok, "free", i64_deserialize),
                 reservable |-> Required(tok, "reservable", i64_deserialize),
                 used |-> Required(tok, "used", i64_deserialize)])

StatsMemory_serialize(memory) ==
    JsonObject(<<M("allocated", integer_serialize(memory.allocated)),
                 M("free", integer_serialize(memory.free)),
                 M("reservable", integer_serialize(memory.reservable)),
                 M("used", integer_serialize(memory.used))>>)

\* Stats: cpu, frames (renamed frameStats, optional), memory, players,
\* playingPlayers, uptime, op.
Stats_deserialize(tok) ==
    IF tok.json # "object" THEN De_Err
    ELSE Struct([cpu |-> Required(tok, "cpu", StatsCpu_deserialize),
                 frames |-> Optional(tok, "frameStats", StatsFrames_deserialize),
                 memory |-> Required(tok, "memory", StatsMemory_deserialize),
                 players |-> Required(tok, "players", i32_deserialize),
                 playing_players |-> Required(tok, "playingPlayers", i32_deserialize),
                 uptime |-> Required(tok, "uptime", i64_deserialize),
                 op |-> Required(tok, "op", Opcode_deserialize)])

\* Stats written without the rename of frames.
Stats_serialize_unrenamed(stats) ==
    JsonObject(<<M("cpu", StatsCpu_serialize(stats.cpu)),
                 M("frames",
                   Option_serialize(stats.frames, StatsFrames_serialize)),
                 M("memory", StatsMemory_serialize(stats.memory)),
                 M("players", integer_serialize(stats.players)),
                 M("playingPlayers", integer_serialize(stats.playing_players)),
                 M("uptime", integer_serialize(stats.uptime)),
                 M("op", Opcode_serialize(stats.op))>>)

Stats_serialize(stats) ==
    JsonObject(<<M("cpu", StatsCpu_serialize(stats.cpu)),
                 M("frameStats",
                   Option_serialize(stats.frames, StatsFrames_serialize)),
                 M("memory", StatsMemory_serialize(stats.memory)),
                 M("players", integer_serialize(stats.players)),
                 M("playingPlayers", integer_serialize(stats.playing_players)),
                 M("uptime", integer_serialize(stats.uptime)),
                 M("op", Opcode_serialize(stats.op))>>)

\* EventTrackEnd read with unknown members refused.
EventTrackEnd_deserialize_strict(tok) ==
    IF tok.json # "object" THEN De_Err
    ELSE IF Keys(tok) = {"guildId", "reason", "track", "op"}
    THEN Struct([guild_id |-> String_deserialize(Member(tok, "guildId")),
                 reason |-> String_deserialize(Member(tok, "reason")),
                 track |-> String_deserialize(Member(tok, "track")),
                 op |-> Opcode_deserialize(Member(tok, "op"))])
    ELSE De_Err

\* EventTrackEnd: guildId, reason, track, op.
EventTrackEnd_deserialize(tok) ==
    IF tok.json # "object" THEN De_Err
    ELSE Struct([guild_id |-> Required(tok, "guildId", String_deserialize),
                 reason |-> Required(tok, "reason", String_deserialize),
                 track |-> Required(tok, "track", String_deserialize),
                 op |-> Required(tok, "op", Opcode_deserialize)])

\* EventTrackException: guildId, error, track, op.
EventTrackException_deserialize(tok) ==
    IF tok.json # "object" THEN De_Err
    ELSE Struct([guild_id |-> Required(tok, "guildId", String_deserialize),
                 error |-> Required(tok, "error", String_deserialize),
                 track |-> Required(tok, "track", String_deserialize),
                 op |-> Required(tok, "op", Opcode_deserialize)])

\* EventTrackStuck: guildId, thresholdMs, track, op.
EventTrackStuck_deserialize(tok) ==
    IF tok.json # "object" THEN De_Err
    ELSE Struct([guild_id |-> Required(tok, "guildId", String_deserialize),
                 threshold_ms |-> Required(tok, "thresholdMs", i64_deserialize),
                 track |-> Required(tok, "track", String_deserialize),
                 op |-> Required(tok, "op", Opcode_deserialize)])

\* EventWebSocketClosed: byRemote, code, guildId, reason, op.
EventWebSocketClosed_deserialize(tok) ==
    IF tok.json # "object" THEN De_Err
    ELSE Struct([by_remote |-> Required(tok, "byRemote", bool_deserialize),
                 code |-> Required(tok, "code", u16_deserialize),
                 guild_id |-> Required(tok, "guildId", String_deserialize),
                 reason |-> Required(tok, "reason", String_deserialize),
                 op |-> Required(tok, "op", Opcode_deserialize)])

\* A variant of an enum holding a value.
Variant(name, val) == [variant |-> name, val |-> val]

\* The derived Deserialize of an untagged enum: of the variants, in the
\* order of the enum, the first whose content deserializes.
Untagged(variants) ==
    IF \E k \in DOMAIN variants : variants[k].val.ok
    THEN LET first == CHOOSE k \in DOMAIN variants :
                        /\ variants[k].val.ok
                        /\ \A j \in 1..(k - 1) : ~variants[j].val.ok
         IN  De_Ok(Variant(variants[first].variant, variants[first].val.val))
    ELSE De_Err

\* Event is untagged: its variants are tried in the order of the enum, the
\* first that deserializes is the event.
Event_deserialize(tok) ==
    Untagged(<<Variant("TrackEnd", EventTrackEnd_deserialize(tok)),
               Variant("TrackException", EventTrackException_deserialize(tok)),
               Variant("TrackStuck", EventTrackStuck_deserialize(tok)),
               Variant("WebSocketClosed",
                       EventWebSocketClosed_deserialize(tok))>>)

\* IncomingMessage is untagged: Event, then PlayerUpdate, then Stats.
IncomingMessage_deserialize(tok) ==
    Untagged(<<Variant("Event", Event_deserialize(tok)),
               Variant("PlayerUpdate", PlayerUpdate_deserialize(tok)),
               Variant("Stats", Stats_deserialize(tok))>>)

\* serde_json::from_str::<T>(text): the layout of the text is not looked at.
Types == {"PlayerUpdate", "Stats", "EventTrackEnd", "IncomingMessage"}

\* The Result that from_str returns.
Returned(r) == IF r.ok THEN Ok(r.val) ELSE Err(r.val)

from_str(type, text) ==
    Returned(CASE type = "PlayerUpdate" -> PlayerUpdate_deserialize(text.value)
               [] type = "Stats" -> Stats_deserialize(text.value)
               [] type = "EventTrackEnd" ->
                    EventTrackEnd_deserialize(text.value)
               [] type = "IncomingMessage" ->
                    IncomingMessage_deserialize(text.value))

\* serde_json::to_string_pretty(&value), for the two types the node's
\* messages are written back from.
to_string_pretty(type, value) ==
    JsonText("pretty", CASE type = "PlayerUpdate" -> PlayerUpdate_serialize(value)
                         [] type = "Stats" -> Stats_serialize(value))

(***************************************************************************)
(* The payloads given to from_str: the texts of the tests of model.rs and  *)
(* texts a node may send that differ from them in one respect.             *)
(***************************************************************************)

\* PLAYER_UPDATE of the tests.
PLAYER_UPDATE ==
    JsonText("pretty", JsonObject(<<
      M("guildId", JsonString("1")),
      M("op", JsonString("playerUpdate")),
      M("state", JsonObject(<<
        M("position", JsonInteger(FALSE, U64(45120))),
        M("time", JsonInteger(FALSE, <<0, 358, 3821, 38507>>))>>))>>))

\* STATS of the tests, with the two loads rounded to multiples of 2^-10
\* (23/1024 and 4/1024).
STATS ==
    JsonText("pretty", JsonObject(<<
      M("cpu", JsonObject(<<
        M("cores", JsonInteger(FALSE, U64(4))),
        M("systemLoad", JsonFloat("shortest", Finite(23))),
        M("lavalinkLoad", JsonFloat("shortest", Finite(4)))>>)),
      M("frameStats", JsonObject(<<
        M("sent", JsonFloat("shortest", Finite(3000 * 1024))),
        M("nulled", JsonFloat("shortest", Finite(0))),
        M("deficit", JsonFloat("shortest", Finite(0)))>>)),
      M("memory", JsonObject(<<
        M("allocated", JsonInteger(FALSE, U64(187695104))),
        M("free", JsonInteger(FALSE, U64(88357736))),
        M("reservable", JsonInteger(FALSE, U64(2013265920))),
        M("used", JsonInteger(FALSE, U64(99337368)))>>)),
      M("players", JsonInteger(FALSE, U64(1))),
      M("playingPlayers", JsonInteger(FALSE, U64(1))),
      M("uptime", JsonInteger(FALSE, U64(79943650))),
      M("op", JsonString("stats"))>>))

\* TRACK_END of the tests.
TRACK_END ==
    JsonText("pretty", JsonObject(<<
      M("op", JsonString("event")),
      M("reason", JsonString("FINISHED")),
      M("type", JsonString("TrackEndEvent")),
      M("track", JsonString("foo")),
      M("guildId", JsonString("1"))>>))

\* Events of the other three kinds, as a node writes them.
TRACK_EXCEPTION ==
    JsonText("compact", JsonObject(<<
      M("op", JsonString("event")),
      M("type", JsonString("TrackExceptionEvent")),
      M("track", JsonString("foo")),
      M("error", JsonString("boom")),
      M("guildId", JsonString("1"))>>))

TRACK_STUCK ==
    JsonText("compact", JsonObject(<<
      M("op", JsonString("event")),
      M("type", JsonString("TrackStuckEvent")),
      M("track", JsonString("foo")),
      M("thresholdMs", JsonInteger(FALSE, U64(10000))),
      M("guildId", JsonString("1"))>>))

WEB_SOCKET_CLOSED ==
    JsonText("compact", JsonObject(<<
      M("op", JsonString("event")),
      M("type", JsonString("WebSocketClosedEvent")),
      M("guildId", JsonString("1")),
      M("code", JsonInteger(FALSE, U64(4006))),
      M("reason", JsonString("Session no longer valid.")),
      M("byRemote", JsonBool(TRUE))>>))

\* An object without a member, with a member set (replaced in place, or
\* added at the end), and with its members in the opposite order.
Without(obj, key) ==
    JsonObject(SelectSeq(obj.members, LAMBDA m : m.key # key))

With(obj, key, value) ==
    JsonObject(IF key \in Keys(obj)
               THEN [k \in DOMAIN obj.members |->
                       IF obj.members[k].key = key THEN M(key, value)
                       ELSE obj.members[k]]
               ELSE Append(obj.members, M(key, value)))

Reversed(obj) ==
    JsonObject([k \in DOMAIN obj.members |->
                  obj.members[Len(obj.members) + 1 - k]])

\* The texts that differ from a text in one respect: the other layout, the
\* members in the opposite order, one member missing, an unknown member
\* more, and another value for one member (at the top, or one level down).
Values ==
    {JsonNull, JsonString("stats"), JsonString("playerUpdate"),
     JsonString("unknown"), JsonString("destroy"),
     JsonInteger(FALSE, U64(3000)), JsonInteger(TRUE, U64(1)),
     JsonInteger(FALSE, <<65535, 65535, 65535, 65535>>),
     JsonFloat("shortest", Finite(4 * 1024)),
     JsonFloat("padded", Finite(3000 * 1024))}

Changed(obj) ==
    {Reversed(obj), With(obj, "type", JsonString("added"))}
      \cup {Without(obj, key) : key \in Keys(obj)}
      \cup {With(obj, key, value) :
              key \in {k \in Keys(obj) : Member(obj, k).json # "object"},
              value \in Values}

Alike(text) ==
    {text, JsonText("compact", text.value)}
      \cup {JsonText(text.layout, value) : value \in Changed(text.value)}
      \cup UNION {{JsonText(text.layout, With(text.value, key, inner)) :
                     inner \in Changed(Member(text.value, key))} :
                  key \in {k \in Keys(text.value) :
                             Member(text.value, k).json = "object"}}

\* Texts that more than one variant of an untagged enum can read: a track
\* end that also has the members of the other track events, and a player
\* update that also has those of a track end.
TRACK_END_AND_MORE ==
    JsonText("compact",
             With(With(TRACK_END.value, "error", JsonString("boom")),
                  "thresholdMs", JsonInteger(FALSE, U64(10000))))

PLAYER_UPDATE_AND_MORE ==
    JsonText("compact",
             With(With(PLAYER_UPDATE.value, "reason", JsonString("FINISHED")),
                  "track", JsonString("foo")))

Payloads ==
    Alike(PLAYER_UPDATE) \cup Alike(STATS) \cup Alike(TRACK_END)
      \cup {TRACK_EXCEPTION, TRACK_STUCK, WEB_SOCKET_CLOSED,
            TRACK_END_AND_MORE, PLAYER_UPDATE_AND_MORE}

\* A caller about to deserialize a payload as one of the types.
InitJson ==
    \E type \in Types, text \in Payloads :
      /\ call = <<[type |-> type, pc |-> "called", ret |-> Pending,
                   out |-> <<>>]>>
      /\ fixture = <<text>>
      /\ players = AudioPlayerManager_new

\* serde_json::from_str::<T>(text)
FromStr ==
    \E i \in DOMAIN call :
      /\ call[i].pc = "called"
      /\ LET ret == from_str(call[i].type, fixture[i])
         IN  call' = [call EXCEPT ![i] =
                        [@ EXCEPT !.ret = ret,
                                  !.pc = IF ret.kind = "Ok" THEN "parsed"
                                         ELSE "failed"]]
      /\ UNCHANGED <<fixture, players>>

\* serde_json::to_string_pretty(&value).unwrap()
ToStringPretty ==
    \E i \in DOMAIN call :
      /\ call[i].pc = "parsed"
      /\ call[i].type \in {"PlayerUpdate", "Stats"}
      /\ call' = [call EXCEPT ![i] =
                    [@ EXCEPT !.pc = "serialized",
                              !.out = <<to_string_pretty(call[i].type,
                                                         call[i].ret.track)>>]]
      /\ UNCHANGED <<fixture, players>>

NextJson == FromStr \/ ToStringPretty

SpecJson == InitJson /\ [][NextJson]_vars

\* The names of the members of an object, in the order of the text.
KeysInOrder(obj) == [k \in DOMAIN obj.members |-> obj.members[k].key]

\* An object that lists exactly these members, in this order.
Lists(tok, names) == tok.json = "object" /\ KeysInOrder(tok) = names

\* A number with a fraction, spelled the way serde_json spells it.
Shortest(tok) == tok.json = "number" /\ tok.form = "shortest"

\* A text laid out the way to_string_pretty lays out a value of the type:
\* the pretty layout, every member of every struct (the optional ones too,
\* a value or null) in the order of the declaration and no other member,
\* every f64 in its shortest spelling.
WrittenAs(type, text) ==
    LET v == text.value
    IN  /\ text.layout = "pretty"
        /\ type = "PlayerUpdate" =>
             /\ Lists(v, <<"guildId", "op", "state">>)
             /\ Lists(Member(v, "state"), <<"position", "time">>)
        /\ type = "Stats" =>
             /\ Lists(v, <<"cpu", "frameStats", "memory", "players",
                          "playingPlayers", "uptime", "op">>)
             /\ Lists(Member(v, "cpu"),
                      <<"cores", "systemLoad", "lavalinkLoad">>)
             /\ Shortest(Member(Member(v, "cpu"), "systemLoad"))
             /\ Shortest(Member(Member(v, "cpu"), "lavalinkLoad"))
             /\ Member(v, "frameStats") # JsonNull =>
                  /\ Lists(Member(v, "frameStats"),
                           <<"sent", "nulled", "deficit">>)
                  /\ \A key \in {"sent", "nulled", "deficit"} :
                       Shortest(Member(Member(v, "frameStats"), key))
             /\ Lists(Member(v, "memory"),
                      <<"allocated", "free", "reservable", "used">>)

\* The invocations that deserialized a PlayerUpdate or a Stats and wrote it
\* back.
WrittenBack == {i \in DOMAIN call : call[i].pc = "serialized"}

(***************************************************************************)
(* C21, as stated: for a PlayerUpdate or Stats payload, deserializing the  *)
(* node's JSON and serializing the value again in the pretty form          *)
(* reproduces the original text exactly.                                   *)
(***************************************************************************)
C21_WritingBackReproducesText ==
    \A i \in WrittenBack : call[i].out[1] = fixture[i]

(***************************************************************************)
(* C21, amended: writing back a deserialized PlayerUpdate or Stats gives   *)
(* the pretty text of the value, with the members of each struct in the    *)
(* order of its declaration under their camelCase names, op as it was      *)
(* received and a text that deserializes to the same value; that text is   *)
(* the original one when the original is laid out this way (pretty, every  *)
(* member of each struct present in the order of the declaration, no       *)
(* other member, every f64 in its shortest spelling).                      *)
(***************************************************************************)
C21_WrittenTextRoundTrips ==
    \A i \in WrittenBack :
      LET type == call[i].type
          text == fixture[i]
          out == call[i].out[1]
      IN  /\ WrittenAs(type, out)
          /\ Member(out.value, "op") = Member(text.value, "op")
          /\ from_str(type, out) = call[i].ret
          /\ WrittenAs(type, text) => out = text

C21_Witness ==
    \E i \in WrittenBack :
      /\ call[i].type = "Stats"
      /\ fixture[i] = STATS
      /\ call[i].out[1] = STATS
      /\ KeysInOrder(call[i].out[1].value)[2] = "frameStats"

\* What each kind of event requires of an object: its members, each with a
\* value of its type.
HasString(v, key) == key \in Keys(v) /\ Member(v, key).json = "string"

HasOpcode(v) ==
    /\ HasString(v, "op")
    /\ Member(v, "op").s \in
         {"connect", "disconnect", "event", "isConnectedReq",
          "isConnectedRes", "pause", "play", "playerUpdate", "seek", "sendWS",
          "stats", "stop", "unknown", "validationReq", "validationRes",
          "voiceUpdate", "volume"}

IsTrackEnd(v) ==
    /\ HasString(v, "guildId") /\ HasString(v, "reason")
    /\ HasString(v, "track") /\ HasOpcode(v)

IsTrackException(v) ==
    /\ HasString(v, "guildId") /\ HasString(v, "error")
    /\ HasString(v, "track") /\ HasOpcode(v)

IsTrackStuck(v) ==
    /\ HasString(v, "guildId") /\ HasString(v, "track") /\ HasOpcode(v)
    /\ "thresholdMs" \in Keys(v)
    /\ i64_deserialize(Member(v, "thresholdMs")).ok

IsWebSocketClosed(v) ==
    /\ HasString(v, "guildId") /\ HasString(v, "reason") /\ HasOpcode(v)
    /\ "byRemote" \in Keys(v) /\ Member(v, "byRemote").json = "bool"
    /\ "code" \in Keys(v) /\ u16_deserialize(Member(v, "code")).ok

\* The kind of message an object is, going by Event (and in it TrackEnd,
\* TrackException, TrackStuck, WebSocketClosed), PlayerUpdate, Stats in
\* this order.
KindOf(v) ==
    IF IsTrackEnd(v) THEN <<"Event", "TrackEnd">>
    ELSE IF IsTrackException(v) THEN <<"Event", "TrackException">>
    ELSE IF IsTrackStuck(v) THEN <<"Event", "TrackStuck">>
    ELSE IF IsWebSocketClosed(v) THEN <<"Event", "WebSocketClosed">>
    ELSE IF PlayerUpdate_deserialize(v).ok THEN <<"PlayerUpdate">>
    ELSE IF Stats_deserialize(v).ok THEN <<"Stats">>
    ELSE <<>>

\* The invocations that have deserialized their text, as an IncomingMessage
\* or as any type.
Classified ==
    {i \in DOMAIN call :
       call[i].type = "IncomingMessage" /\ call[i].pc # "called"}

Deserialized == {i \in DOMAIN call : call[i].pc # "called"}

(***************************************************************************)
(* C22. An incoming payload is classified by trying Event, PlayerUpdate,   *)
(* Stats in this order and taking the first whose required members are    *)
(* all there: the Stats text of the tests is an IncomingMessage::Stats,    *)
(* the PlayerUpdate text a PlayerUpdate, the track end text (guildId,      *)
(* reason, track, op and the unknown member type) a track end event, and   *)
(* unknown members make no difference to the result.                       *)
(***************************************************************************)
C22_IncomingMessageIsFirstVariant ==
    /\ \A i \in Classified :
         LET text == fixture[i]
             kind == KindOf(text.value)
             ret == call[i].ret
         IN  /\ kind = <<>> <=> ret.kind = "Err"
             /\ kind # <<>> => ret.track.variant = kind[1]
             /\ Len(kind) = 2 => ret.track.val.variant = kind[2]
             /\ text = STATS =>
                  ret = Ok(Variant("Stats", from_str("Stats", STATS).track))
             /\ text = PLAYER_UPDATE =>
                  ret = Ok(Variant("PlayerUpdate",
                                   [guild_id |-> "1", op |-> "PlayerUpdate",
                                    state |->
                                      [position |-> Some(IntOf(45120)),
                                       time |->
                                         [neg |-> FALSE,
                                          mag |-> <<0, 358, 3821, 38507>>]]]))
             /\ text = TRACK_END =>
                  ret = Ok(Variant("Event",
                                   Variant("TrackEnd",
                                           [guild_id |-> "1",
                                            reason |-> "FINISHED",
                                            track |-> "foo", op |-> "Event"])))
    /\ \A i \in Deserialized :
         LET text == fixture[i]
         IN  /\ from_str(call[i].type,
                         JsonText(text.layout,
                                  With(text.value, "requestId",
                                       JsonInteger(FALSE, U64(7)))))
                  = call[i].ret
             /\ "type" \in Keys(text.value) =>
                  from_str(call[i].type,
                           JsonText(text.layout, Without(text.value, "type")))
                    = call[i].ret
             /\ call[i].type = "EventTrackEnd" /\ text = TRACK_END =>
                  call[i].ret.kind = "Ok"

C22_Witness ==
    \E i \in Classified :
      /\ fixture[i] = TRACK_END
      /\ "type" \in Keys(fixture[i].value)
      /\ call[i].ret.kind = "Ok"
      /\ call[i].ret.track.variant = "Event"
      /\ call[i].ret.track.val.variant = "TrackEnd"

(***************************************************************************)
(* Buffers for the length, the cursor and the end of the input: images     *)
(* whose length field goes up to 2^64 - 1, with and without a URL, with    *)
(* padding of 0 to 2 bytes, whole, cut anywhere, or followed by bytes that *)
(* belong to no field.                                                     *)
(***************************************************************************)

\* The lengths 0, 180000, 2^63 and 2^64 - 1.
Durations ==
    {U64(0), U64(180000), <<32768, 0, 0, 0>>, <<65535, 65535, 65535, 65535>>}

\* Bytes that follow an image: one byte, four bytes, a string field.
Tails == {<<0>>, <<255, 255, 255, 255>>, <<0, 1, 65>>}

InitBuffers ==
    \E duration \in Durations, hasUrl \in {0, 1}, padLen \in 0..2,
       tail \in {<<>>} \cup Tails, entry \in {"bytes", "base64"} :
      LET w == Wire(0, <<84>>, <<195, 169>>, duration, <<97>>, 1, hasUrl,
                    IF hasUrl = 1 THEN <<65>> ELSE <<>>, padLen, <<108>>)
          image == Build(w) \o tail
      IN  \E cut \in 0..Len(image) :
            LET bytes == SubSeq(image, 1, cut)
            IN  /\ hasUrl = 1 => padLen = 0
                /\ entry = "base64" => cut = Len(image)
                /\ fixture = <<[wire |-> w, tail |-> tail, cut |-> cut,
                                full |-> Len(Build(w)), bytes |-> bytes]>>
                /\ call = <<IF entry = "bytes"
                            THEN NewCall("bytes", <<>>, bytes)
                            ELSE NewCall("base64", Base64Encode(bytes), <<>>)>>
                /\ players = AudioPlayerManager_new

SpecBuffers == InitBuffers /\ [][Next]_vars

\* Eight bytes that spell 0, 1, 2^63, 2^64 - 1 and 0x0102030405060708.
LengthBytes ==
    {<<0, 0, 0, 0, 0, 0, 0, 0>>, <<0, 0, 0, 0, 0, 0, 0, 1>>,
     <<128, 0, 0, 0, 0, 0, 0, 0>>,
     <<255, 255, 255, 255, 255, 255, 255, 255>>, <<1, 2, 3, 4, 5, 6, 7, 8>>}

\* The unsigned big-endian value of eight bytes, as four 16-bit words: the
\* word w is the sum of byte_i * 256^(7-i) over its two bytes, divided by
\* 65536^(4-w).
BigEndian(bytes) ==
    <<bytes[1] * 256 + bytes[2], bytes[3] * 256 + bytes[4],
      bytes[5] * 256 + bytes[6], bytes[7] * 256 + bytes[8]>>

(***************************************************************************)
(* C23. The track length is the unsigned 64-bit big-endian value of the 8  *)
(* bytes that follow the author string; reading it advances the cursor by  *)
(* exactly 8; and every value from 0 to 2^64 - 1 is accepted: a buffer     *)
(* built with a length up to 2^64 - 1 decodes to that length, and the same *)
(* buffer with any other 8 bytes there is read without an error and        *)
(* decodes to the same record but for the length.                          *)
(***************************************************************************)
C23_LengthIsBigEndianU64 ==
    \A i \in DOMAIN call :
      LET d == call[i]
      IN  /\ /\ Entries(d, "length") # {}
             /\ Entry(d, "length").ok
             => LET e == Entry(d, "length")
                IN  /\ e.from = Entry(d, "author").to
                    /\ e.to = e.from + 8
                    /\ e.to <= Len(d.input)
                    /\ d.length = BigEndian(SubSeq(d.input, e.from + 1, e.to))
                    /\ d.length = fixture[i].wire.duration
          /\ d.pc = "length" /\ d.pos + 8 <= Len(d.input) =>
               \A bytes \in LengthBytes :
                 LET after == DoLength([d EXCEPT !.input =
                                          Overwrite(d.input, d.pos, bytes)])
                 IN  /\ after.pc = "identifier"
                     /\ after.pos = d.pos + 8
                     /\ after.length = BigEndian(bytes)
          /\ d.pc = "done" =>
               /\ d.ret.track.length = fixture[i].wire.duration
               /\ \A bytes \in LengthBytes :
                    decode_track(Overwrite(d.input, Entry(d, "length").from,
                                           bytes)).ret
                      = Ok([d.ret.track EXCEPT !.length = BigEndian(bytes)])

C23_Witness ==
    \E i \in DOMAIN call :
      /\ call[i].pc = "done"
      /\ Entry(call[i], "length").to = Entry(call[i], "author").to + 8
      /\ fixture[i].wire.duration = <<65535, 65535, 65535, 65535>>
      /\ call[i].ret.track.length = <<65535, 65535, 65535, 65535>>

\* No step of a decode moves the cursor of an invocation back.
C24_CursorMovesForward ==
    \A i \in DOMAIN call :
      i \in DOMAIN call' /\ call[i].cursor => call'[i].pos >= call[i].pos

\* The history agrees: each stage starts where the one before ended and ends
\* no earlier; a decode that returned Ok ended every stage, the last one
\* too, inside the buffer.
C24_ReadInsideBuffer ==
    \A i \in DOMAIN call :
      LET d == call[i]
      IN  /\ \A k \in DOMAIN d.log :
               /\ d.log[k].from <= d.log[k].to
               /\ k > 1 => d.log[k].from = d.log[k - 1].to
          /\ d.log # <<>> => d.pos = d.log[Len(d.log)].to
          /\ d.pc = "done" =>
               /\ d.ret.kind = "Ok"
               /\ d.pos <= Len(d.input)
               /\ \A k \in DOMAIN d.log : d.log[k].to <= Len(d.input)

(***************************************************************************)
(* C24. During a decode the cursor position never decreases, and whenever  *)
(* decode_track returns Ok the final cursor position is at most the length *)
(* of the buffer: every byte that went into the returned record lies       *)
(* inside the input.                                                       *)
(***************************************************************************)
C24_ForwardOnlyAndInBounds ==
    []C24_ReadInsideBuffer /\ [][C24_CursorMovesForward]_vars

C24_Witness ==
    \E i \in DOMAIN call :
      /\ call[i].pc = "done"
      /\ Entries(call[i], "skip_padding") # {}
      /\ Entry(call[i], "skip_padding").to
           = Entry(call[i], "skip_padding").from + 2
      /\ call[i].pos < Len(call[i].input)

(***************************************************************************)
(* C25. Bytes after the end of the source field are ignored: a buffer that *)
(* decodes successfully, with any bytes appended, decodes to the same      *)
(* record, and input left over after the source is never an error.         *)
(***************************************************************************)
C25_TrailingBytesAreIgnored ==
    \A i \in DOMAIN call :
      LET d == call[i]
      IN  /\ d.pc = "done" =>
               /\ d.ret = decode_track(Build(fixture[i].wire)).ret
               /\ d.ret = Ok(Expected(fixture[i].wire))
               /\ d.pos = fixture[i].full
               /\ \A tail \in Tails \cup {Build(ExampleWire)} :
                    LET longer == decode_track(d.input \o tail)
                    IN  /\ longer.ret = d.ret
                        /\ longer.pos = d.pos
                        /\ longer.pos < Len(longer.input)
          /\ Terminal(d) /\ fixture[i].cut >= fixture[i].full =>
               d.pc = "done"

C25_Witness ==
    \E i \in DOMAIN call :
      /\ call[i].pc = "done"
      /\ fixture[i].tail = <<255, 255, 255, 255>>
      /\ call[i].pos = Len(call[i].input) - 4
      /\ call[i].ret = Ok(Expected(fixture[i].wire))

(***************************************************************************)
(* The text of an opcode (opcodes.rs): ToString and FromStr of Opcode.     *)
(***************************************************************************)

\* <Opcode as ToString>::to_string
Opcode_to_string(op) ==
    CASE op = "Connect" -> "connect"
      [] op = "Disconnect" -> "disconnect"
      [] op = "Event" -> "event"
      [] op = "IsConnectedReq" -> "isConnectedReq"
      [] op = "IsConnectedRes" -> "isConnectedRes"
      [] op = "Pause" -> "pause"
      [] op = "Play" -> "play"
      [] op = "PlayerUpdate" -> "playerUpdate"
      [] op = "Seek" -> "seek"
      [] op = "SendWS" -> "sendWS"
      [] op = "Stats" -> "stats"
      [] op = "Stop" -> "stop"
      [] op = "Unknown" -> "unknown"
      [] op = "ValidationReq" -> "validationReq"
      [] op = "ValidationRes" -> "validationRes"
      [] op = "VoiceUpdate" -> "voiceUpdate"
      [] op = "Volume" -> "volume"

\* Mutant of Opcode_from_str: the arm of SendWS spelled "sendWs".
Opcode_from_str_misspelled(s) ==
    CASE s = "connect" -> Ok("Connect")
      [] s = "voiceUpdate" -> Ok("VoiceUpdate")
      [] s = "disconnect" -> Ok("Disconnect")
      [] s = "validationReq" -> Ok("ValidationReq")
      [] s = "validationRes" -> Ok("ValidationRes")
      [] s = "isConnectedReq" -> Ok("IsConnectedReq")
      [] s = "isConnectedRes" -> Ok("IsConnectedRes")
      [] s = "play" -> Ok("Play")
      [] s = "stop" -> Ok("Stop")
      [] s = "pause" -> Ok("Pause")
      [] s = "seek" -> Ok("Seek")
      [] s = "volume" -> Ok("Volume")
      [] s = "sendWs" -> Ok("SendWS")
      [] s = "playerUpdate" -> Ok("PlayerUpdate")
      [] s = "stats" -> Ok("Stats")
      [] s = "event" -> Ok("Event")
      [] OTHER -> Err("Unknown")

\* <Opcode as FromStr>::from_str, whose error type is Opcode itself.
Opcode_from_str(s) ==
    CASE s = "connect" -> Ok("Connect")
      [] s = "voiceUpdate" -> Ok("VoiceUpdate")
      [] s = "disconnect" -> Ok("Disconnect")
      [] s = "validationReq" -> Ok("ValidationReq")
      [] s = "validationRes" -> Ok("ValidationRes")
      [] s = "isConnectedReq" -> Ok("IsConnectedReq")
      [] s = "isConnectedRes" -> Ok("IsConnectedRes")
      [] s = "play" -> Ok("Play")
      [] s = "stop" -> Ok("Stop")
      [] s = "pause" -> Ok("Pause")
      [] s = "seek" -> Ok("Seek")
      [] s = "volume" -> Ok("Volume")
      [] s = "sendWS" -> Ok("SendWS")
      [] s = "playerUpdate" -> Ok("PlayerUpdate")
      [] s = "stats" -> Ok("Stats")
      [] s = "event" -> Ok("Event")
      [] OTHER -> Err("Unknown")

\* The strings given to from_str: the text of every opcode, and strings
\* that are no opcode's text (other case, a space more, a prefix, the name
\* of the variant, opcodes of the protocol the enum does not have).
OpcodeTexts ==
    {Opcode_to_string(op) : op \in Opcodes}
      \cup {"", " ", "Play", "PLAY", "play ", " play", "pla", "plays",
            "Unknown", "sendWs", "sendws", "send_ws", "SendWS",
            "player_update", "playerupdate", "PlayerUpdate", "voice_update",
            "isConnected", "validation", "destroy", "equalizer",
            "configureResuming", "event\n", "0", "null", "op"}

\* A caller holding an opcode to be written and read back, or a string to
\* be read.
InitOpcode ==
    /\ \/ \E op \in Opcodes :
            fixture = <<[given |-> "opcode", opcode |-> op]>>
       \/ \E s \in OpcodeTexts :
            fixture = <<[given |-> "text", text |-> s]>>
    /\ call = <<[pc |-> "called", text |-> <<>>, ret |-> Pending]>>
    /\ players = AudioPlayerManager_new

\* op.to_string()
OpcodeToString ==
    \E i \in DOMAIN call :
      /\ call[i].pc = "called" /\ fixture[i].given = "opcode"
      /\ call' = [call EXCEPT ![i] =
                    [@ EXCEPT !.pc = "written",
                              !.text = <<Opcode_to_string(fixture[i].opcode)>>]]
      /\ UNCHANGED <<fixture, players>>

\* Opcode::from_str(s), of the string written or the string given
OpcodeFromStr ==
    \E i \in DOMAIN call :
      /\ \/ call[i].pc = "written"
         \/ call[i].pc = "called" /\ fixture[i].given = "text"
      /\ LET s == IF fixture[i].given = "text" THEN fixture[i].text
                  ELSE call[i].text[1]
         IN  call' = [call EXCEPT ![i] =
                        [@ EXCEPT !.pc = "read", !.text = <<s>>,
                                  !.ret = Opcode_from_str(s)]]
      /\ UNCHANGED <<fixture, players>>

NextOpcode == OpcodeToString \/ OpcodeFromStr

SpecOpcode == InitOpcode /\ [][NextOpcode]_vars

\* The 16 names from_str knows.
KnownNames ==
    {"connect", "voiceUpdate", "disconnect", "validationReq",
     "validationRes", "isConnectedReq", "isConnectedRes", "play", "stop",
     "pause", "seek", "volume", "sendWS", "playerUpdate", "stats", "event"}

(***************************************************************************)
(* C26. The text of an opcode reads back as the opcode: for every opcode   *)
(* but Unknown, from_str(to_string(op)) is Ok(op), and two opcodes never   *)
(* have the same text; every string that is not one of the 16 known names, *)
(* "unknown" (the text of Unknown) among them, reads as Err(Unknown).      *)
(***************************************************************************)
C26_OpcodeTextRoundTrips ==
    \A i \in DOMAIN call :
      /\ call[i].pc \in {"written", "read"} /\ fixture[i].given = "opcode" =>
           \A other \in Opcodes \ {fixture[i].opcode} :
             Opcode_to_string(other) # call[i].text[1]
      /\ call[i].pc = "read" /\ fixture[i].given = "opcode" =>
           IF fixture[i].opcode = "Unknown"
           THEN call[i].text = <<"unknown">> /\ call[i].ret = Err("Unknown")
           ELSE call[i].ret = Ok(fixture[i].opcode)
      /\ call[i].pc = "read" =>
           /\ call[i].text[1] \notin KnownNames => call[i].ret = Err("Unknown")
           /\ call[i].text[1] \in KnownNames =>
                /\ call[i].ret.kind = "Ok"
                /\ call[i].ret.track \in Opcodes \ {"Unknown"}
                /\ Opcode_to_string(call[i].ret.track) = call[i].text[1]
      /\ Cardinality(KnownNames) = 16

C26_Witness ==
    \E i \in DOMAIN call :
      /\ call[i].pc = "read"
      /\ fixture[i].given = "opcode"
      /\ fixture[i].opcode = "SendWS"
      /\ call[i].text = <<"sendWS">>
      /\ call[i].ret = Ok("SendWS")

(***************************************************************************)
(* The AudioPlayer of a guild (player.rs): play, stop, pause and volume    *)
(* send a message to the node over the channel of the player's sender,     *)
(* and on success change the player and tell its listeners.                *)
(***************************************************************************)

\* Error::Send(..), from From<SendError<T>>, and the error of a message
\* that could not be turned into a WebSocket message.
ErrSend == [kind |-> "Send"]
ErrJson == [kind |-> "Json"]

\* Stop::new, Pause::new, Volume::new
Stop_new(guild_id) == [op |-> "Stop", guild_id |-> guild_id]
Pause_new(guild_id, pause) ==
    [op |-> "Pause", guild_id |-> guild_id, pause |-> pause]
Volume_new(guild_id, volume) ==
    [op |-> "Volume", guild_id |-> guild_id, volume |-> volume]

\* message.into_ws_message()?: the implementation of IntoWebSocketMessage is
\* not in player.rs, so either outcome is taken to be possible, the message
\* as an OwnedMessage or an error.
into_ws_message(message, converts) ==
    IF converts THEN Ok([text |-> message]) ELSE Err(ErrJson)

\* Sender::send on a channel: the message is queued while the Receiver
\* lives, and is an error once it has been dropped.
Sender_send(channel, message) ==
    IF channel.connected
    THEN [channel |-> [channel EXCEPT !.queue = Append(@, message)],
          result |-> Ok(<<>>)]
    ELSE [channel |-> channel, result |-> Err(ErrSend)]

\* AudioPlayer::send: self.sender.lock().send(message).map_err(From::from)
AudioPlayer_send(self, channel, message) == Sender_send(channel, message)

\* A call of a handler of a listener: the arguments it is given, and the
\* player as the handler sees it through its &AudioPlayer.
Heard(listener, handler, args, self) ==
    [listener |-> listener, handler |-> handler, args |-> args,
     player |-> self]

\* What a method of the player leaves: the player, the channel, the value
\* returned, the calls of handlers in their order, and what error! logged.
Outcome(self, channel, ret, heard, logged) ==
    [self |-> self, channel |-> channel, ret |-> ret, heard |-> heard,
     logged |-> logged]

\* AudioPlayer::play(&mut self, track, start_time, end_time)
AudioPlayer_play(self, channel, track, start_time, end_time, converts) ==
    LET message == into_ws_message(Play_new(ToString(self.guild_id), track,
                                            start_time, end_time), converts)
    IN  IF message.kind = "Err"
        THEN Outcome(self, channel, message, <<>>, <<>>)
        ELSE LET sent == AudioPlayer_send(self, channel, message.track)
             IN  IF sent.result.kind = "Ok"
                 THEN LET set == [self EXCEPT !.track = Some(track)]
                      IN  Outcome(set, sent.channel, Ok(<<>>),
                                  [k \in DOMAIN set.listeners |->
                                     Heard(set.listeners[k], "on_track_start",
                                           <<track>>, set)],
                                  <<>>)
                 ELSE Outcome(self, sent.channel, Ok(<<>>), <<>>,
                              <<"play websocket send error">>)

\* Mutant of AudioPlayer_stop: the listeners are told before self.track is
\* cleared.
AudioPlayer_stop_telling_first(self, channel, converts) ==
    LET message == into_ws_message(Stop_new(ToString(self.guild_id)), converts)
    IN  IF message.kind = "Err"
        THEN Outcome(self, channel, message, <<>>, <<>>)
        ELSE LET sent == AudioPlayer_send(self, channel, message.track)
             IN  IF sent.result.kind = "Ok"
                 THEN LET track == IF self.track = None
                                   THEN "no track in state" ELSE self.track[1]
                          cleared == [self EXCEPT !.track = None]
                      IN  Outcome(cleared, sent.channel, Ok(<<>>),
                                  [k \in DOMAIN self.listeners |->
                                     Heard(self.listeners[k], "on_track_end",
                                           <<track, "no reason :) :dabs:">>,
                                           self)],
                                  <<>>)
                 ELSE Outcome(self, sent.channel, Ok(<<>>), <<>>,
                              <<"stop websocket send error">>)

\* AudioPlayer::stop(&mut self)
AudioPlayer_stop(self, channel, converts) ==
    LET message == into_ws_message(Stop_new(ToString(self.guild_id)), converts)
    IN  IF message.kind = "Err"
        THEN Outcome(self, channel, message, <<>>, <<>>)
        ELSE LET sent == AudioPlayer_send(self, channel, message.track)
             IN  IF sent.result.kind = "Ok"
                 THEN LET track == IF self.track = None
                                   THEN "no track in state" ELSE self.track[1]
                          cleared == [self EXCEPT !.track = None]
                      IN  Outcome(cleared, sent.channel, Ok(<<>>),
                                  [k \in DOMAIN cleared.listeners |->
                                     Heard(cleared.listeners[k], "on_track_end",
                                           <<track, "no reason :) :dabs:">>,
                                           cleared)],
                                  <<>>)
                 ELSE Outcome(self, sent.channel, Ok(<<>>), <<>>,
                              <<"stop websocket send error">>)

\* AudioPlayer::pause(&mut self, pause)
AudioPlayer_pause(self, channel, pause, converts) ==
    LET message == into_ws_message(Pause_new(ToString(self.guild_id), pause),
                                   converts)
    IN  IF message.kind = "Err"
        THEN Outcome(self, channel, message, <<>>, <<>>)
        ELSE LET sent == AudioPlayer_send(self, channel, message.track)
             IN  IF sent.result.kind = "Ok"
                 THEN LET set == [self EXCEPT !.paused = pause]
                      IN  Outcome(set, sent.channel, Ok(<<>>),
                                  [k \in DOMAIN set.listeners |->
                                     Heard(set.listeners[k],
                                           IF pause THEN "on_player_pause"
                                           ELSE "on_player_resume",
                                           <<>>, set)],
                                  <<>>)
                 ELSE Outcome(self, sent.channel, Ok(<<>>), <<>>,
                              <<"pause websocket send error">>)

\* Mutant of AudioPlayer_volume: self.volume is set before the result of
\* the send is looked at.
AudioPlayer_volume_set_first(self, channel, volume, converts) ==
    LET message == into_ws_message(Volume_new(ToString(self.guild_id), volume),
                                   converts)
    IN  IF message.kind = "Err"
        THEN Outcome(self, channel, message, <<>>, <<>>)
        ELSE LET sent == AudioPlayer_send(self, channel, message.track)
                 set == [self EXCEPT !.volume = volume]
             IN  IF sent.result.kind = "Ok"
                 THEN Outcome(set, sent.channel, Ok(<<>>), <<>>, <<>>)
                 ELSE Outcome(set, sent.channel, Ok(<<>>), <<>>,
                              <<"play websocket send error">>)

\* AudioPlayer::volume(&mut self, volume); its error! says "play".
AudioPlayer_volume(self, channel, volume, converts) ==
    LET message == into_ws_message(Volume_new(ToString(self.guild_id), volume),
                                   converts)
    IN  IF message.kind = "Err"
        THEN Outcome(self, channel, message, <<>>, <<>>)
        ELSE LET sent == AudioPlayer_send(self, channel, message.track)
             IN  IF sent.result.kind = "Ok"
                 THEN LET set == [self EXCEPT !.volume = volume]
                      IN  Outcome(set, sent.channel, Ok(<<>>), <<>>, <<>>)
                 ELSE Outcome(self, sent.channel, Ok(<<>>), <<>>,
                              <<"play websocket send error">>)

\* The arguments tried.
Tracks == {"track1", "track2"}
EndTimes == {Some(U64(180000))}
Volumes == {0, 150}

\* A manager with one player, made by create_player for a sender whose
\* Receiver lives, to which none, one or two listeners were added.
InitAudio ==
    \E n \in 0..2 :
      LET created == create_player(AudioPlayerManager_new, "sender1", 1, 1)
          listeners == SubSeq(<<"listener1", "listener2">>, 1, n)
      IN  /\ players = [created.players EXCEPT
                          ![1].player.listeners = listeners]
          /\ fixture = [connected |-> TRUE, queue |-> <<>>]
          /\ call = <<>>

\* The Receiver of the channel is dropped.
DropReceiver ==
    /\ fixture.connected
    /\ fixture' = [fixture EXCEPT !.connected = FALSE]
    /\ UNCHANGED <<call, players>>

\* What a call of a method leaves in the history: the call, whether its
\* message could be converted and whether the Receiver lived, and what the
\* method returned, told the listeners and logged.
Called27(op, guild_id, args, converts, o) ==
    [op |-> op, guild_id |-> guild_id, args |-> args, converts |-> converts,
     connected |-> fixture.connected, ret |-> o.ret, heard |-> o.heard,
     logged |-> o.logged]

\* player.lock().play(track, start_time, end_time)
PlayerPlay ==
    \E guild_id \in DOMAIN players, track \in Tracks, end_time \in EndTimes,
       converts \in BOOLEAN :
      LET o == AudioPlayer_play(players[guild_id].player, fixture, track,
                                None, end_time, converts)
      IN  /\ Len(call) < MaxOps
          /\ players' = [players EXCEPT ![guild_id].player = o.self]
          /\ fixture' = o.channel
          /\ call' = Append(call, Called27("play", guild_id,
                                           <<track, None, end_time>>,
                                           converts, o))

\* player.lock().stop()
PlayerStop ==
    \E guild_id \in DOMAIN players, converts \in BOOLEAN :
      LET o == AudioPlayer_stop(players[guild_id].player, fixture, converts)
      IN  /\ Len(call) < MaxOps
          /\ players' = [players EXCEPT ![guild_id].player = o.self]
          /\ fixture' = o.channel
          /\ call' = Append(call, Called27("stop", guild_id, <<>>, converts, o))

\* player.lock().pause(pause)
PlayerPause ==
    \E guild_id \in DOMAIN players, pause \in BOOLEAN, converts \in BOOLEAN :
      LET o == AudioPlayer_pause(players[guild_id].player, fixture, pause,
                                 converts)
      IN  /\ Len(call) < MaxOps
          /\ players' = [players EXCEPT ![guild_id].player = o.self]
          /\ fixture' = o.channel
          /\ call' = Append(call, Called27("pause", guild_id, <<pause>>,
                                           converts, o))

\* player.lock().volume(volume)
PlayerVolume ==
    \E guild_id \in DOMAIN players, volume \in Volumes, converts \in BOOLEAN :
      LET o == AudioPlayer_volume(players[guild_id].player, fixture, volume,
                                  converts)
      IN  /\ Len(call) < MaxOps
          /\ players' = [players EXCEPT ![guild_id].player = o.self]
          /\ fixture' = o.channel
          /\ call' = Append(call, Called27("volume", guild_id, <<volume>>,
                                           converts, o))

NextAudio ==
    PlayerPlay \/ PlayerStop \/ PlayerPause \/ PlayerVolume \/ DropReceiver

SpecAudio == InitAudio /\ [][NextAudio]_vars

\* The calls of the history whose message was sent, and whose send failed.
Sent(k) == call[k].converts /\ call[k].connected
SendFailed(k) == call[k].converts /\ ~call[k].connected

\* The calls of play and stop among the first n calls whose message was sent.
PlaysAndStops(n) ==
    {k \in 1..n : call[k].op \in {"play", "stop"} /\ Sent(k)}

\* The track the player holds after the first n calls: that of the last
\* play sent if no stop was sent after it.
Held(n) ==
    IF PlaysAndStops(n) = {} THEN None
    ELSE LET last == CHOOSE k \in PlaysAndStops(n) :
                       \A j \in PlaysAndStops(n) : j <= k
         IN  IF call[last].op = "play" THEN Some(call[last].args[1]) ELSE None

C27_NewPlayer ==
    \A g \in DOMAIN players :
      LET p == players[g].player
      IN  /\ call = <<>> =>
                p.track = None /\ p.paused = FALSE /\ p.volume = 100
          /\ p.track = Held(Len(call))

C27_Listeners ==
    \A k \in DOMAIN call :
      LET p == players[call[k].guild_id].player
          heard == call[k].heard
      IN  /\ call[k].op = "play" /\ Sent(k) =>
               /\ Len(heard) = Len(p.listeners)
               /\ \A j \in DOMAIN heard :
                    /\ heard[j].listener = p.listeners[j]
                    /\ heard[j].handler = "on_track_start"
                    /\ heard[j].args = <<call[k].args[1]>>
                    /\ heard[j].player.track = Some(call[k].args[1])
          /\ call[k].op = "stop" /\ Sent(k) =>
               /\ Len(heard) = Len(p.listeners)
               /\ \A j \in DOMAIN heard :
                    /\ heard[j].listener = p.listeners[j]
                    /\ heard[j].handler = "on_track_end"
                    /\ heard[j].args[1] =
                         IF Held(k - 1) = None THEN "no track in state"
                         ELSE Held(k - 1)[1]
                    /\ heard[j].player.track = None

(***************************************************************************)
(* C27. A new AudioPlayer has track None, paused false and volume 100;     *)
(* after any calls of play and stop, track is Some(t) for the t of the     *)
(* last play whose message was sent if no stop was sent after it, and None *)
(* otherwise; the on_track_start listeners run with track already set      *)
(* (they see Some(t)), and the on_track_end listeners of a stop are given  *)
(* the track held before the stop ("no track in state" when there was     *)
(* none) and run with track already cleared.                               *)
(***************************************************************************)
C27_TrackFollowsPlayAndStop == C27_NewPlayer /\ C27_Listeners

C27_Witness ==
    /\ Len(call) = 3
    /\ \A k \in 1..3 : Sent(k)
    /\ call[1].op = "play" /\ call[1].args[1] = "track1"
    /\ call[2].op = "play" /\ call[2].args[1] = "track2"
    /\ call[3].op = "stop"
    /\ Len(call[3].heard) = 2
    /\ call[3].heard[2].args[1] = "track2"
    /\ call[3].heard[2].player.track = None
    /\ players[1].player.track = None

\* A call whose send failed returned Ok(()), told no listener and logged
\* the failure.
C28_OkAndSilent ==
    \A k \in DOMAIN call :
      SendFailed(k) =>
        /\ call[k].ret = Ok(<<>>)
        /\ call[k].heard = <<>>
        /\ call[k].logged # <<>>

\* A step that is a call whose send failed leaves the player as it was, all
\* its fields, and queues nothing.
C28_NothingChanged ==
    /\ Len(call') = Len(call) + 1
    /\ call'[Len(call')].converts
    /\ ~call'[Len(call')].connected
    => /\ players' = players
       /\ fixture' = fixture

(***************************************************************************)
(* C28. When the send of the websocket message fails, play, stop, pause    *)
(* and volume leave every field of the AudioPlayer (track, paused, volume  *)
(* and the others) as it was and call no listener, and still return        *)
(* Ok(()): the failure is logged and not reported to the caller.           *)
(***************************************************************************)
C28_FailedSendChangesNothing ==
    []C28_OkAndSilent /\ [][C28_NothingChanged]_vars

C28_Witness ==
    /\ Len(call) = 3
    /\ call[1].op = "play" /\ Sent(1)
    /\ call[2].op = "stop" /\ SendFailed(2)
    /\ call[3].op = "volume" /\ SendFailed(3)
    /\ call[2].ret = Ok(<<>>) /\ call[3].ret = Ok(<<>>)
    /\ players[1].player.listeners # <<>>
    /\ players[1].player.track = Some("track1")
    /\ players[1].player.volume = 100

=============================================================================
